---------------------------- MODULE Spec2Model ----------------------------
(***************************************************************************)
(* State-machine model of the Farjad ERP backend (Django + Django REST     *)
(* framework).  The state is the content of the relational tables; every   *)
(* action is one request handler (REST resource method or admin form       *)
(* submission) or one step of such a handler where requests of several     *)
(* workers interleave.                                                      *)
(*                                                                         *)
(* Conventions                                                             *)
(*   - NULL (0) is Python None / SQL NULL; primary keys start at 1.        *)
(*   - A request body is a function whose DOMAIN is the set of keys the    *)
(*     client sent, so that dict.get() and partial updates are modelled    *)
(*     as the serializers evaluate them.                                   *)
(*   - response is the outcome of the last handled request.                *)
(***************************************************************************)
EXTENDS Integers, FiniteSets, Sequences, TLC

(***************************************************************************)
(* Bounds of the model                                                     *)
(***************************************************************************)
MaxContacts == 2
MaxCompanies == 2
MaxCities == 2
MaxAddresses == 2
MaxTechnicians == 2
MaxServiceRequests == 2
MaxSchedules == 2
MaxTime == 3
MaxDay == 1
MaxSec == 0
MaxUsec == 1
MaxProducts == 2
MaxImages == 2
MaxWorkers == 2
MaxItems == 2
MaxQuantity == 1
MaxTypeChoice == 2
MaxInvoices == 2
MaxPayments == 2
MaxTotal == 2
MaxAmount == 2
MaxInvoiceItems == 2
MaxItemQuantity == 1
MaxUnitPrice == 3
MaxLineTotal == 1
MaxEmails == 3
MaxUsers == 2
MaxCookies == 1
MaxUserSessions == 3
MaxRoles == 1
MaxPermissions == 2
MaxRolePermissions == 2
MaxUserRoles == 2
MaxPrice == 3
MaxAccounts == 3
MaxTransactions == 1
MaxExpenses == 1
MaxAuditLogs == 2

NULL == 0

ContactIds == 1..MaxContacts
CompanyIds == 1..MaxCompanies
Cities == 1..MaxCities
TechnicianIds == 1..MaxTechnicians
Times == 1..MaxTime
ProductIds == 1..MaxProducts
Workers == 1..MaxWorkers
Quantities == (0 - MaxQuantity)..MaxQuantity
Days == 0..MaxDay
InvoiceIds == 1..MaxInvoices

VARIABLES
    clock,                 \* timezone.now(): [day, sec, usec]
    response,              \* outcome of the last request: [op, status, pk]
    contacts,              \* core.Contact rows (primary keys)
    companies,             \* core.Company rows (primary keys)
    addresses,             \* core.Address rows
    nextAddressId,         \* auto-increment primary key of core.Address
    technicians,           \* services.Technician rows (primary keys)
    serviceRequests,       \* services.ServiceRequest rows
    nextServiceRequestId,
    schedules,             \* services.Schedule rows
    nextScheduleId,
    products,              \* inventory.Product rows (primary keys)
    productImages,         \* inventory.ProductImage rows
    nextImageId,
    imageForm,             \* per admin worker: the image form it has validated
    inventoryItems,        \* inventory.InventoryItem rows
    nextItemId,
    invoices,              \* finance.Invoice rows
    nextInvoiceId,
    payments,              \* finance.Payment rows
    nextPaymentId,
    invoiceItems,          \* finance.InvoiceItem rows
    nextInvoiceItemId,
    users,                 \* accounts.User rows
    nextUserId,
    userSessions,          \* accounts.UserSession rows
    nextUserSessionId,
    rolePermissions,       \* accounts.RolePermission rows
    nextRolePermissionId,
    userRoles,             \* accounts.UserRole rows
    nextUserRoleId,
    productPrices,         \* inventory.Product: cost_price and selling_price per row
    accounts,              \* finance.Account rows
    nextAccountId,
    transactions,          \* finance.Transaction rows
    nextTransactionId,
    expenses,              \* finance.Expense rows
    nextExpenseId,
    contactFields,         \* core.Contact: is_active and contact_type per row
    statistics,            \* the contact statistics request: the counts it has
                           \* read, pc the number of queries it has run (0 when
                           \* no request is in progress)
    auditLogs,             \* core.AuditLog rows
    nextAuditLogId,
    requestUser            \* request.user of the requests the client sends: the
                           \* user its access token authenticates, NULL for
                           \* AnonymousUser (no token, or a token that is not valid)

coreVars == <<contacts, companies, addresses, nextAddressId>>
serviceVars == <<technicians, serviceRequests, nextServiceRequestId,
                 schedules, nextScheduleId>>
inventoryVars == <<products, productImages, nextImageId, imageForm,
                   inventoryItems, nextItemId>>
financeVars == <<invoices, nextInvoiceId, payments, nextPaymentId>>
itemVars == <<invoiceItems, nextInvoiceItemId>>
accountsVars == <<users, nextUserId, userSessions, nextUserSessionId>>
roleVars == <<rolePermissions, nextRolePermissionId, userRoles, nextUserRoleId>>
priceVars == <<productPrices>>
ledgerVars == <<accounts, nextAccountId, transactions, nextTransactionId,
                expenses, nextExpenseId>>
auditVars == <<auditLogs, nextAuditLogId>>
statsVars == <<contactFields, statistics>>
dbVars == <<coreVars, serviceVars, inventoryVars, financeVars, itemVars, accountsVars,
            roleVars, priceVars, ledgerVars, auditVars, statsVars>>
vars == <<clock, response, requestUser, dbVars>>

\* what a handler of the core app leaves alone outside its own tables
CoreFrame ==
    UNCHANGED <<clock, auditVars, statsVars, requestUser, serviceVars, inventoryVars, financeVars, itemVars,
                accountsVars, roleVars, priceVars, ledgerVars>>

\* what a handler of the services app leaves alone outside its own tables
ServiceFrame ==
    UNCHANGED <<clock, auditVars, statsVars, requestUser, coreVars, inventoryVars, financeVars, itemVars,
                accountsVars, roleVars, priceVars, ledgerVars>>

\* what a handler of the inventory app leaves alone outside its own tables
InventoryFrame ==
    UNCHANGED <<clock, auditVars, statsVars, requestUser, coreVars, serviceVars, financeVars, itemVars,
                accountsVars, roleVars, priceVars, ledgerVars>>

\* what a handler of the finance app leaves alone outside the finance tables
InvoiceFrame ==
    UNCHANGED <<clock, auditVars, statsVars, requestUser, coreVars, serviceVars, inventoryVars, accountsVars,
                roleVars, priceVars, ledgerVars>>

\* what a handler of the accounts app leaves alone outside its own tables
AccountsFrame ==
    UNCHANGED <<clock, auditVars, statsVars, coreVars, serviceVars, inventoryVars, financeVars, itemVars,
                roleVars, priceVars, ledgerVars>>

\* what the admin console of the role tables leaves alone
RoleFrame ==
    UNCHANGED <<clock, auditVars, statsVars, requestUser, coreVars, serviceVars, inventoryVars, financeVars,
                itemVars, accountsVars, priceVars, ledgerVars>>

\* what a handler of the Product resource leaves alone
ProductFrame ==
    UNCHANGED <<clock, auditVars, statsVars, requestUser, coreVars, serviceVars, inventoryVars, financeVars,
                itemVars, accountsVars, roleVars, ledgerVars>>

\* what a handler of the chart of accounts and its transactions leaves alone
LedgerFrame ==
    UNCHANGED <<clock, auditVars, statsVars, requestUser, coreVars, serviceVars, inventoryVars, financeVars,
                itemVars, accountsVars, roleVars, priceVars>>

\* what a handler of the Invoice or Payment resource leaves alone besides the
\* invoice and payment tables: its requests reach no invoice item
FinanceFrame == InvoiceFrame /\ UNCHANGED itemVars

\* HTTP outcome of a request: operation, status code, primary key of the row
Resp(op, status, pk) == [op |-> op, status |-> status, pk |-> pk]

(***************************************************************************)
(* dict.get(key): the value sent under key, None when the key is absent.   *)
(***************************************************************************)
Get(data, key) == IF key \in DOMAIN data THEN data[key] ELSE NULL

(***************************************************************************)
(* core: Address                                                           *)
(***************************************************************************)
AddressKeys == {"contact", "company", "city"}

AddressFieldValues(key) ==
    CASE key = "contact" -> ContactIds \cup {NULL}
      [] key = "company" -> CompanyIds \cup {NULL}
      [] key = "city" -> Cities

\* every request body a client can send for an address
AddressPayloads ==
    UNION { { d \in [K -> 0..(MaxContacts + MaxCompanies + MaxCities)] :
                \A k \in K : d[k] \in AddressFieldValues(k) } :
            K \in SUBSET AddressKeys }

\* ModelSerializer field validation: a foreign key must name an existing row
\* (or be null), and a full (non partial) body must carry the required fields.
AddressFieldsValid(data, partial) ==
    /\ Get(data, "contact") # NULL => data["contact"] \in contacts
    /\ Get(data, "company") # NULL => data["company"] \in companies
    /\ ~partial => "city" \in DOMAIN data

\* AddressSerializer.validate: looks only at the keys of the request body
AddressSerializerValidate(data) ==
    /\ ~(Get(data, "contact") = NULL /\ Get(data, "company") = NULL)
    /\ ~(Get(data, "contact") # NULL /\ Get(data, "company") # NULL)

\* Address.clean: looks at the instance
AddressClean(a) ==
    /\ ~(a.contact = NULL /\ a.company = NULL)
    /\ ~(a.contact # NULL /\ a.company # NULL)

\* ModelSerializer.update: setattr for every validated key, then save
AddressApply(a, data) ==
    [id |-> a.id,
     contact |-> IF "contact" \in DOMAIN data THEN data["contact"] ELSE a.contact,
     company |-> IF "company" \in DOMAIN data THEN data["company"] ELSE a.company,
     city |-> IF "city" \in DOMAIN data THEN data["city"] ELSE a.city]

\* POST /addresses/
AddressCreate(data) ==
    /\ nextAddressId <= MaxAddresses
    /\ IF AddressFieldsValid(data, FALSE) /\ AddressSerializerValidate(data)
       THEN /\ addresses' = addresses \cup
                   {[id |-> nextAddressId,
                     contact |-> Get(data, "contact"),
                     company |-> Get(data, "company"),
                     city |-> data["city"]]}
            /\ nextAddressId' = nextAddressId + 1
            /\ response' = Resp("address_create", 201, nextAddressId)
       ELSE /\ response' = Resp("address_create", 400, NULL)
            /\ UNCHANGED <<addresses, nextAddressId>>
    /\ UNCHANGED <<contacts, companies>>
    /\ CoreFrame

\* PUT /addresses/{id}/: a full update, partial = FALSE
AddressUpdate(a, data) ==
    /\ IF AddressFieldsValid(data, FALSE) /\ AddressSerializerValidate(data)
       THEN /\ addresses' = (addresses \ {a}) \cup {AddressApply(a, data)}
            /\ response' = Resp("address_update", 200, a.id)
       ELSE /\ response' = Resp("address_update", 400, a.id)
            /\ UNCHANGED addresses
    /\ UNCHANGED <<contacts, companies, nextAddressId>>
    /\ CoreFrame

\* PATCH /addresses/{id}/: a partial update, partial = TRUE
AddressPartialUpdate(a, data) ==
    /\ IF AddressFieldsValid(data, TRUE) /\ AddressSerializerValidate(data)
       THEN /\ addresses' = (addresses \ {a}) \cup {AddressApply(a, data)}
            /\ response' = Resp("address_partial_update", 200, a.id)
       ELSE /\ response' = Resp("address_partial_update", 400, a.id)
            /\ UNCHANGED addresses
    /\ UNCHANGED <<contacts, companies, nextAddressId>>
    /\ CoreFrame

\* DELETE /addresses/{id}/
AddressDestroy(a) ==
    /\ addresses' = addresses \ {a}
    /\ response' = Resp("address_destroy", 204, a.id)
    /\ UNCHANGED <<contacts, companies, nextAddressId>>
    /\ CoreFrame

\* admin console, add address: the ModelForm carries every field and
\* full_clean() runs Address.clean on the instance before it is saved
AddressAdminAdd(contact, company, city) ==
    /\ nextAddressId <= MaxAddresses
    /\ LET a == [id |-> nextAddressId, contact |-> contact,
                 company |-> company, city |-> city]
       IN IF (contact # NULL => contact \in contacts)
             /\ (company # NULL => company \in companies)
             /\ AddressClean(a)
          THEN /\ addresses' = addresses \cup {a}
               /\ nextAddressId' = nextAddressId + 1
               /\ response' = Resp("address_admin_add", 302, a.id)
          ELSE /\ response' = Resp("address_admin_add", 200, NULL)
               /\ UNCHANGED <<addresses, nextAddressId>>
    /\ UNCHANGED <<contacts, companies>>
    /\ CoreFrame

(***************************************************************************)
(* Wall clock and generated document numbers                               *)
(***************************************************************************)
\* the clock advances by one microsecond step, carrying into seconds and days
ClockNext(c) ==
    IF c.usec < MaxUsec THEN [c EXCEPT !.usec = c.usec + 1]
    ELSE IF c.sec < MaxSec THEN [day |-> c.day, sec |-> c.sec + 1, usec |-> 0]
    ELSE [day |-> c.day + 1, sec |-> 0, usec |-> 0]

Tick ==
    /\ clock.day < MaxDay \/ clock.sec < MaxSec \/ clock.usec < MaxUsec
    /\ clock' = ClockNext(clock)
    /\ UNCHANGED <<response, requestUser, dbVars>>

\* timezone.now().strftime('%Y%m%d%H%M%S'): date and time of day to the
\* second, the sub-second part is dropped
strftime(c) == [day |-> c.day, sec |-> c.sec]

\* f"{prefix}-{timestamp}"
Number(prefix, c) ==
    [prefix |-> prefix, day |-> strftime(c).day, sec |-> strftime(c).sec]

\* the empty string of a number field that was not provided
EmptyNumber == [prefix |-> "", day |-> 0, sec |-> 0]

\* timezone.now().date()
Today == clock.day

(***************************************************************************)
(* services: ServiceRequest                                                *)
(***************************************************************************)
ServiceRequestIds == 1..MaxServiceRequests

\* a nullable DateTimeField: NULL, or the day of the moment it holds
NoDateTime == [none |-> TRUE, day |-> 0]
DateTime(d) == [none |-> FALSE, day |-> d]

\* unique=True on request_number: no other row holds the number
ServiceRequestUnique(r) ==
    \A o \in serviceRequests : o.id # r.id => o.request_number # r.request_number

\* ServiceRequest.save: generate the number when none is provided
ServiceRequestSave(r) ==
    IF r.request_number = EmptyNumber
    THEN [r EXCEPT !.request_number = Number("SR", clock)]
    ELSE r

\* POST /service-requests/: request_number is read only, customer is required
ServiceRequestCreate(customer, technician) ==
    /\ nextServiceRequestId <= MaxServiceRequests
    /\ LET r == ServiceRequestSave([id |-> nextServiceRequestId,
                                    request_number |-> EmptyNumber,
                                    customer |-> customer,
                                    status |-> "pending",
                                    assigned_technician |-> technician,
                                    assigned_at |-> NoDateTime])
       IN IF ~(customer \in contacts /\ (technician # NULL => technician \in technicians))
          THEN /\ response' = Resp("service_request_create", 400, NULL)
               /\ UNCHANGED <<serviceRequests, nextServiceRequestId>>
          ELSE IF ~ServiceRequestUnique(r)
          THEN /\ response' = Resp("service_request_create", 500, NULL)
               /\ UNCHANGED <<serviceRequests, nextServiceRequestId>>
          ELSE /\ serviceRequests' = serviceRequests \cup {r}
               /\ nextServiceRequestId' = nextServiceRequestId + 1
               /\ response' = Resp("service_request_create", 201, r.id)
    /\ UNCHANGED <<technicians, schedules, nextScheduleId>>
    /\ ServiceFrame

ServiceRequest_STATUS_CHOICES ==
    <<"pending", "assigned", "in_progress", "completed", "cancelled", "on_hold">>

ServiceRequestKeys == {"status", "assigned_technician", "assigned_at"}

\* status travels as the position of the choice in STATUS_CHOICES,
\* assigned_at as a day
ServiceRequestFieldValues(key) ==
    CASE key = "status" -> DOMAIN ServiceRequest_STATUS_CHOICES
      [] key = "assigned_technician" -> TechnicianIds
      [] key = "assigned_at" -> Days

ServiceRequestPayloads ==
    UNION { { d \in [K -> 0..(6 + MaxTechnicians + MaxDay)] :
                \A k \in K : d[k] \in ServiceRequestFieldValues(k) } :
            K \in SUBSET ServiceRequestKeys }

ServiceRequestApply(r, data) ==
    [id |-> r.id,
     request_number |-> r.request_number,
     customer |-> r.customer,
     status |-> IF "status" \in DOMAIN data
                THEN ServiceRequest_STATUS_CHOICES[data["status"]] ELSE r.status,
     assigned_technician |-> IF "assigned_technician" \in DOMAIN data
                             THEN data["assigned_technician"]
                             ELSE r.assigned_technician,
     assigned_at |-> IF "assigned_at" \in DOMAIN data
                     THEN DateTime(data["assigned_at"]) ELSE r.assigned_at]

\* PATCH /service-requests/{id}/
ServiceRequestPartialUpdate(r, data) ==
    /\ r \in serviceRequests
    /\ IF "assigned_technician" \in DOMAIN data
          /\ data["assigned_technician"] \notin technicians
       THEN /\ response' = Resp("service_request_partial_update", 400, r.id)
            /\ UNCHANGED serviceRequests
       ELSE LET n == ServiceRequestSave(ServiceRequestApply(r, data))
            IN IF ~ServiceRequestUnique(n)
               THEN /\ response' = Resp("service_request_partial_update", 500, r.id)
                    /\ UNCHANGED serviceRequests
               ELSE /\ serviceRequests' = (serviceRequests \ {r}) \cup {n}
                    /\ response' = Resp("service_request_partial_update", 200, r.id)
    /\ UNCHANGED <<technicians, nextServiceRequestId, schedules, nextScheduleId>>
    /\ ServiceFrame

(***************************************************************************)
(* services: Technician                                                    *)
(***************************************************************************)
\* the rows the deletion collector gathers for a technician: the schedules
\* whose CASCADE foreign key names it (Schedule.technician)
TechnicianCascade(t) == {s \in schedules : s.technician = t}

\* variant: the requests assigned to the technician are deleted with it
assigned_technician_CASCADE(t) ==
    {r \in serviceRequests : r.assigned_technician # t}

\* on_delete=SET_NULL of ServiceRequest.assigned_technician: one UPDATE of
\* that column on the requests assigned to the technician
assigned_technician_SET_NULL(t) ==
    {IF r.assigned_technician = t
     THEN [r EXCEPT !.assigned_technician = NULL] ELSE r : r \in serviceRequests}

\* DELETE /technicians/{id}/
TechnicianDestroy(t) ==
    /\ t \in technicians
    /\ technicians' = technicians \ {t}
    /\ schedules' = schedules \ TechnicianCascade(t)
    /\ serviceRequests' = assigned_technician_SET_NULL(t)
    /\ response' = Resp("technician_destroy", 204, t)
    /\ UNCHANGED <<nextServiceRequestId, nextScheduleId>>
    /\ ServiceFrame

(***************************************************************************)
(* services: Schedule                                                      *)
(***************************************************************************)
ScheduleKeys == {"technician", "service_request", "start_time", "end_time"}

ScheduleFieldValues(key) ==
    CASE key = "technician" -> TechnicianIds
      [] key = "service_request" -> ServiceRequestIds
      [] key = "start_time" -> Times
      [] key = "end_time" -> Times

\* every request body a client can send for a schedule
SchedulePayloads ==
    UNION { { d \in [K -> 1..(MaxTechnicians + MaxServiceRequests + MaxTime)] :
                \A k \in K : d[k] \in ScheduleFieldValues(k) } :
            K \in SUBSET ScheduleKeys }

\* ModelSerializer field validation of ScheduleSerializer: foreign keys name
\* existing rows and a full body carries the four required fields; the
\* serializer has no validate() and never calls Schedule.clean
ScheduleFieldsValid(data, partial) ==
    /\ "technician" \in DOMAIN data => data["technician"] \in technicians
    /\ "service_request" \in DOMAIN data =>
           \E r \in serviceRequests : r.id = data["service_request"]
    /\ ~partial => DOMAIN data = ScheduleKeys

\* Schedule.clean: passes when end_time is after start_time
ScheduleClean(s) == ~(s.start_time >= s.end_time)

\* ModelSerializer.update: setattr for every validated key, then save
ScheduleApply(s, data) ==
    [id |-> s.id,
     technician |-> IF "technician" \in DOMAIN data THEN data["technician"] ELSE s.technician,
     service_request |-> IF "service_request" \in DOMAIN data
                         THEN data["service_request"] ELSE s.service_request,
     start_time |-> IF "start_time" \in DOMAIN data THEN data["start_time"] ELSE s.start_time,
     end_time |-> IF "end_time" \in DOMAIN data THEN data["end_time"] ELSE s.end_time]

\* POST /schedules/
ScheduleCreate(data) ==
    /\ nextScheduleId <= MaxSchedules
    /\ IF ScheduleFieldsValid(data, FALSE)
       THEN /\ schedules' = schedules \cup
                   {[id |-> nextScheduleId,
                     technician |-> data["technician"],
                     service_request |-> data["service_request"],
                     start_time |-> data["start_time"],
                     end_time |-> data["end_time"]]}
            /\ nextScheduleId' = nextScheduleId + 1
            /\ response' = Resp("schedule_create", 201, nextScheduleId)
       ELSE /\ response' = Resp("schedule_create", 400, NULL)
            /\ UNCHANGED <<schedules, nextScheduleId>>
    /\ UNCHANGED <<technicians, serviceRequests, nextServiceRequestId>>
    /\ ServiceFrame

\* PUT /schedules/{id}/
ScheduleUpdate(s, data) ==
    /\ IF ScheduleFieldsValid(data, FALSE)
       THEN /\ schedules' = (schedules \ {s}) \cup {ScheduleApply(s, data)}
            /\ response' = Resp("schedule_update", 200, s.id)
       ELSE /\ response' = Resp("schedule_update", 400, s.id)
            /\ UNCHANGED schedules
    /\ UNCHANGED <<technicians, serviceRequests, nextServiceRequestId, nextScheduleId>>
    /\ ServiceFrame

\* PATCH /schedules/{id}/
SchedulePartialUpdate(s, data) ==
    /\ IF ScheduleFieldsValid(data, TRUE)
       THEN /\ schedules' = (schedules \ {s}) \cup {ScheduleApply(s, data)}
            /\ response' = Resp("schedule_partial_update", 200, s.id)
       ELSE /\ response' = Resp("schedule_partial_update", 400, s.id)
            /\ UNCHANGED schedules
    /\ UNCHANGED <<technicians, serviceRequests, nextServiceRequestId, nextScheduleId>>
    /\ ServiceFrame

\* admin console, add schedule: the ModelForm carries every field and
\* full_clean() runs Schedule.clean before the row is saved
ScheduleAdminAdd(technician, service_request, start_time, end_time) ==
    /\ nextScheduleId <= MaxSchedules
    /\ LET s == [id |-> nextScheduleId, technician |-> technician,
                 service_request |-> service_request,
                 start_time |-> start_time, end_time |-> end_time]
       IN IF /\ technician \in technicians
             /\ \E r \in serviceRequests : r.id = service_request
             /\ ScheduleClean(s)
          THEN /\ schedules' = schedules \cup {s}
               /\ nextScheduleId' = nextScheduleId + 1
               /\ response' = Resp("schedule_admin_add", 302, s.id)
          ELSE /\ response' = Resp("schedule_admin_add", 200, NULL)
               /\ UNCHANGED <<schedules, nextScheduleId>>
    /\ UNCHANGED <<technicians, serviceRequests, nextServiceRequestId>>
    /\ ServiceFrame

\* admin console, change schedule
ScheduleAdminChange(s, technician, service_request, start_time, end_time) ==
    /\ LET n == [id |-> s.id, technician |-> technician,
                 service_request |-> service_request,
                 start_time |-> start_time, end_time |-> end_time]
       IN IF /\ technician \in technicians
             /\ \E r \in serviceRequests : r.id = service_request
             /\ ScheduleClean(n)
          THEN /\ schedules' = (schedules \ {s}) \cup {n}
               /\ response' = Resp("schedule_admin_change", 302, s.id)
          ELSE /\ response' = Resp("schedule_admin_change", 200, s.id)
               /\ UNCHANGED schedules
    /\ UNCHANGED <<technicians, serviceRequests, nextServiceRequestId, nextScheduleId>>
    /\ ServiceFrame

(***************************************************************************)
(* Aggregates of the object-relational mapper                              *)
(***************************************************************************)
RECURSIVE Sum(_, _)
Sum(rows, field) ==
    IF rows = {} THEN 0
    ELSE LET r == CHOOSE x \in rows : TRUE
         IN r[field] + Sum(rows \ {r}, field)

\* queryset.aggregate(total=Sum(field))['total']: None over no rows
Aggregate(rows, field) == [none |-> rows = {}, total |-> Sum(rows, field)]

\* Python's  x or default  on an aggregate: None and zero are both falsy
Or(x, default) == IF x.none \/ x.total = 0 THEN default ELSE x.total

(***************************************************************************)
(* inventory: ProductImage (admin console only, no REST resource)          *)
(***************************************************************************)
IdleForm == [pending |-> FALSE, pk |-> NULL, product |-> NULL, is_primary |-> FALSE]

\* ProductImage.clean: a primary image passes when no other image of the
\* product is primary
ProductImageClean(img) ==
    img.is_primary =>
        ~(\E o \in productImages :
              o.product = img.product /\ o.is_primary /\ o.id # img.pk)

\* add forms that passed validation and are not saved yet
PendingAdds == Cardinality({w \in Workers : imageForm[w].pending /\ imageForm[w].pk = NULL})

\* admin console, first step of an add (pk = NULL) or change request handled
\* by worker w: form.is_valid() runs ProductImage.clean against the table
ImageAdminValidate(w, pk, product, is_primary) ==
    /\ ~imageForm[w].pending
    /\ pk = NULL => nextImageId + PendingAdds <= MaxImages
    /\ LET form == [pending |-> TRUE, pk |-> pk, product |-> product,
                    is_primary |-> is_primary]
       IN IF product \in products /\ ProductImageClean(form)
          THEN /\ imageForm' = [imageForm EXCEPT ![w] = form]
               /\ UNCHANGED response
          ELSE /\ response' = Resp("image_admin_save", 200, pk)
               /\ UNCHANGED imageForm
    /\ UNCHANGED <<products, productImages, nextImageId, inventoryItems, nextItemId>>
    /\ InventoryFrame

\* admin console, second step: save_model() writes the validated form
ImageAdminSave(w) ==
    /\ imageForm[w].pending
    /\ LET form == imageForm[w]
           id == IF form.pk = NULL THEN nextImageId ELSE form.pk
       IN /\ productImages' = {o \in productImages : o.id # id} \cup
                 {[id |-> id, product |-> form.product, is_primary |-> form.is_primary]}
          /\ nextImageId' = IF form.pk = NULL THEN nextImageId + 1 ELSE nextImageId
          /\ response' = Resp("image_admin_save", 302, id)
    /\ imageForm' = [imageForm EXCEPT ![w] = IdleForm]
    /\ UNCHANGED <<products, inventoryItems, nextItemId>>
    /\ InventoryFrame

\* admin console, delete image
ImageAdminDelete(img) ==
    /\ productImages' = productImages \ {img}
    /\ response' = Resp("image_admin_delete", 302, img.id)
    /\ UNCHANGED <<products, nextImageId, imageForm, inventoryItems, nextItemId>>
    /\ InventoryFrame

(***************************************************************************)
(* inventory: InventoryItem and Product.current_stock                      *)
(***************************************************************************)
TRANSACTION_TYPES == <<"in", "out", "adjustment", "transfer">>

ItemKeys == {"product", "quantity", "transaction_type"}

\* transaction_type travels as the position of the choice in TRANSACTION_TYPES
ItemFieldValues(key) ==
    CASE key = "product" -> ProductIds
      [] key = "quantity" -> Quantities
      [] key = "transaction_type" ->
             {i \in DOMAIN TRANSACTION_TYPES : i <= MaxTypeChoice}

ItemPayloads ==
    UNION { { d \in [K -> (0 - MaxQuantity)..(MaxQuantity + MaxProducts + 4)] :
                \A k \in K : d[k] \in ItemFieldValues(k) } :
            K \in SUBSET ItemKeys }

ItemFieldsValid(data, partial) ==
    /\ "product" \in DOMAIN data => data["product"] \in products
    /\ ~partial => DOMAIN data = ItemKeys

ItemApply(it, data) ==
    [id |-> it.id,
     product |-> IF "product" \in DOMAIN data THEN data["product"] ELSE it.product,
     quantity |-> IF "quantity" \in DOMAIN data THEN data["quantity"] ELSE it.quantity,
     transaction_type |-> IF "transaction_type" \in DOMAIN data
                          THEN TRANSACTION_TYPES[data["transaction_type"]]
                          ELSE it.transaction_type]

\* variant: only stock-in items are counted
current_stock_in(p) ==
    Or(Aggregate({it \in inventoryItems :
                     it.product = p /\ it.transaction_type = "in"}, "quantity"), 0)

\* Product.current_stock
current_stock(p) ==
    Or(Aggregate({it \in inventoryItems : it.product = p}, "quantity"), 0)

\* POST /inventory/
InventoryCreate(data) ==
    /\ nextItemId <= MaxItems
    /\ IF ItemFieldsValid(data, FALSE)
       THEN /\ inventoryItems' = inventoryItems \cup
                   {[id |-> nextItemId, product |-> data["product"],
                     quantity |-> data["quantity"],
                     transaction_type |-> TRANSACTION_TYPES[data["transaction_type"]]]}
            /\ nextItemId' = nextItemId + 1
            /\ response' = Resp("inventory_create", 201, nextItemId)
       ELSE /\ response' = Resp("inventory_create", 400, NULL)
            /\ UNCHANGED <<inventoryItems, nextItemId>>
    /\ UNCHANGED <<products, productImages, nextImageId, imageForm>>
    /\ InventoryFrame

\* PUT /inventory/{id}/
InventoryUpdate(it, data) ==
    /\ IF ItemFieldsValid(data, FALSE)
       THEN /\ inventoryItems' = (inventoryItems \ {it}) \cup {ItemApply(it, data)}
            /\ response' = Resp("inventory_update", 200, it.id)
       ELSE /\ response' = Resp("inventory_update", 400, it.id)
            /\ UNCHANGED inventoryItems
    /\ UNCHANGED <<products, productImages, nextImageId, imageForm, nextItemId>>
    /\ InventoryFrame

\* PATCH /inventory/{id}/
InventoryPartialUpdate(it, data) ==
    /\ IF ItemFieldsValid(data, TRUE)
       THEN /\ inventoryItems' = (inventoryItems \ {it}) \cup {ItemApply(it, data)}
            /\ response' = Resp("inventory_partial_update", 200, it.id)
       ELSE /\ response' = Resp("inventory_partial_update", 400, it.id)
            /\ UNCHANGED inventoryItems
    /\ UNCHANGED <<products, productImages, nextImageId, imageForm, nextItemId>>
    /\ InventoryFrame

\* DELETE /inventory/{id}/
InventoryDestroy(it) ==
    /\ inventoryItems' = inventoryItems \ {it}
    /\ response' = Resp("inventory_destroy", 204, it.id)
    /\ UNCHANGED <<products, productImages, nextImageId, imageForm, nextItemId>>
    /\ InventoryFrame

(***************************************************************************)
(* inventory: Product prices and Product.profit_margin                     *)
(* Prices are held in hundredths.  A Decimal result is the exact fraction  *)
(* num / den, or the ZeroDivisionError its computation raised.             *)
(***************************************************************************)
ProductKeys == {"cost_price", "selling_price"}

\* what a client can send for a price, a negative amount included
PriceValues == (0 - 1)..MaxPrice

ProductPayloads ==
    UNION { [K -> PriceValues] : K \in SUBSET ProductKeys }

\* ModelSerializer field validation of ProductSerializer:
\* MinValueValidator(0.00) on both prices, both required in a full body
ProductFieldsValid(data, partial) ==
    /\ \A k \in DOMAIN data : data[k] >= 0
    /\ ~partial => DOMAIN data = ProductKeys

ProductApply(row, data) ==
    [cost_price |-> IF "cost_price" \in DOMAIN data
                    THEN data["cost_price"] ELSE row.cost_price,
     selling_price |-> IF "selling_price" \in DOMAIN data
                       THEN data["selling_price"] ELSE row.selling_price]

\* PUT /products/{id}/
ProductUpdate(p, data) ==
    /\ p \in products
    /\ IF ProductFieldsValid(data, FALSE)
       THEN /\ productPrices' = [productPrices EXCEPT ![p] = ProductApply(@, data)]
            /\ response' = Resp("product_update", 200, p)
       ELSE /\ response' = Resp("product_update", 400, p)
            /\ UNCHANGED productPrices
    /\ ProductFrame

\* PATCH /products/{id}/
ProductPartialUpdate(p, data) ==
    /\ p \in products
    /\ IF ProductFieldsValid(data, TRUE)
       THEN /\ productPrices' = [productPrices EXCEPT ![p] = ProductApply(@, data)]
            /\ response' = Resp("product_partial_update", 200, p)
       ELSE /\ response' = Resp("product_partial_update", 400, p)
            /\ UNCHANGED productPrices
    /\ ProductFrame

\* Decimal results
DecimalOf(n) == [error |-> FALSE, num |-> n, den |-> 1]
ZeroDivisionError == [error |-> TRUE, num |-> 0, den |-> 1]

\* a / b
DecimalDiv(a, b) ==
    IF b = 0 THEN ZeroDivisionError ELSE [error |-> FALSE, num |-> a, den |-> b]

\* x * k
DecimalTimes(x, k) ==
    IF x.error THEN x ELSE [x EXCEPT !.num = x.num * k]

\* variant: the margin is taken on the selling price
profit_margin_on_sales(p) ==
    LET cost_price == productPrices[p].cost_price
        selling_price == productPrices[p].selling_price
    IN IF cost_price > 0
       THEN DecimalTimes(DecimalDiv(selling_price - cost_price, selling_price), 100)
       ELSE DecimalOf(0)

\* Product.profit_margin
profit_margin(p) ==
    LET cost_price == productPrices[p].cost_price
        selling_price == productPrices[p].selling_price
    IN IF cost_price > 0
       THEN DecimalTimes(DecimalDiv(selling_price - cost_price, cost_price), 100)
       ELSE DecimalOf(0)

(***************************************************************************)
(* finance: Invoice                                                        *)
(***************************************************************************)
Invoice_STATUS_CHOICES == <<"draft", "sent", "paid", "overdue", "cancelled">>

InvoiceKeys == {"status", "customer", "due_date", "total_amount"}

\* status travels as the position of the choice in STATUS_CHOICES,
\* amounts are in hundredths (two decimal places)
InvoiceFieldValues(key) ==
    CASE key = "status" -> DOMAIN Invoice_STATUS_CHOICES
      [] key = "customer" -> ContactIds
      [] key = "due_date" -> Days
      [] key = "total_amount" -> 0..MaxTotal

InvoicePayloads ==
    UNION { { d \in [K -> 0..(5 + MaxContacts + MaxDay + MaxTotal)] :
                \A k \in K : d[k] \in InvoiceFieldValues(k) } :
            K \in SUBSET InvoiceKeys }

\* ModelSerializer field validation of InvoiceSerializer: invoice_number is
\* read only, status has a default, the other fields are required
InvoiceFieldsValid(data, partial) ==
    /\ "customer" \in DOMAIN data => data["customer"] \in contacts
    /\ ~partial => {"customer", "due_date", "total_amount"} \subseteq DOMAIN data

\* variant: invoice_number is not among the read-only fields
InvoiceSerializer_read_only_id_only == {"id", "created_at", "updated_at"}

\* InvoiceSerializer.Meta.read_only_fields
InvoiceSerializer_read_only_fields == {"id", "invoice_number", "created_at", "updated_at"}

\* InvoiceAdmin.readonly_fields
InvoiceAdmin_readonly_fields ==
    {"invoice_number", "is_overdue", "remaining_amount", "created_at", "updated_at"}

\* validated_data / cleaned_data: what is sent under a read-only field is
\* dropped
validated_data(data, read_only) ==
    [k \in DOMAIN data \ read_only |-> data[k]]

\* ModelSerializer.update / construct_instance: every validated value is set
\* on the instance
InvoiceApply(i, data) ==
    [id |-> i.id,
     invoice_number |-> IF "invoice_number" \in DOMAIN data
                        THEN data["invoice_number"] ELSE i.invoice_number,
     status |-> IF "status" \in DOMAIN data
                THEN Invoice_STATUS_CHOICES[data["status"]] ELSE i.status,
     customer |-> IF "customer" \in DOMAIN data THEN data["customer"] ELSE i.customer,
     due_date |-> IF "due_date" \in DOMAIN data THEN data["due_date"] ELSE i.due_date,
     total_amount |-> IF "total_amount" \in DOMAIN data
                      THEN data["total_amount"] ELSE i.total_amount]

\* variant: the invoice_number column without its unique constraint
InvoiceUniqueDropped(i) == TRUE

\* unique=True on invoice_number: no other row holds the number
InvoiceUnique(i) ==
    \A o \in invoices : o.id # i.id => o.invoice_number # i.invoice_number

\* Invoice.save: generate the number when none is provided
InvoiceSave(i) ==
    IF i.invoice_number = EmptyNumber
    THEN [i EXCEPT !.invoice_number = Number("INV", clock)]
    ELSE i

\* variant: an invoice due today already counts as overdue
is_overdue_from_due_date(i) ==
    i.status \notin {"paid", "cancelled"} /\ Today >= i.due_date

\* Invoice.is_overdue
is_overdue(i) ==
    i.status \notin {"paid", "cancelled"} /\ Today > i.due_date

\* variant: only completed payments are subtracted
remaining_amount_completed(i) ==
    i.total_amount -
        Or(Aggregate({p \in payments : p.invoice = i.id /\ p.status = "completed"},
                     "amount"), 0)

\* Invoice.remaining_amount
remaining_amount(i) ==
    i.total_amount - Or(Aggregate({p \in payments : p.invoice = i.id}, "amount"), 0)

\* POST /invoices/
InvoiceCreate(data) ==
    /\ nextInvoiceId <= MaxInvoices
    /\ IF ~InvoiceFieldsValid(data, FALSE)
       THEN /\ response' = Resp("invoice_create", 400, NULL)
            /\ UNCHANGED <<invoices, nextInvoiceId>>
       ELSE LET i == InvoiceSave(InvoiceApply(
                        [id |-> nextInvoiceId, invoice_number |-> EmptyNumber,
                         status |-> "draft", customer |-> NULL,
                         due_date |-> 0, total_amount |-> 0],
                        validated_data(data, InvoiceSerializer_read_only_fields)))
            IN IF ~InvoiceUnique(i)
               THEN /\ response' = Resp("invoice_create", 500, NULL)
                    /\ UNCHANGED <<invoices, nextInvoiceId>>
               ELSE /\ invoices' = invoices \cup {i}
                    /\ nextInvoiceId' = nextInvoiceId + 1
                    /\ response' = Resp("invoice_create", 201, i.id)
    /\ UNCHANGED <<payments, nextPaymentId>>
    /\ FinanceFrame

\* PUT /invoices/{id}/
InvoiceUpdate(i, data) ==
    /\ IF ~InvoiceFieldsValid(data, FALSE)
       THEN /\ response' = Resp("invoice_update", 400, i.id)
            /\ UNCHANGED invoices
       ELSE LET n == InvoiceSave(InvoiceApply(i,
                        validated_data(data, InvoiceSerializer_read_only_fields)))
            IN IF ~InvoiceUnique(n)
               THEN /\ response' = Resp("invoice_update", 500, i.id)
                    /\ UNCHANGED invoices
               ELSE /\ invoices' = (invoices \ {i}) \cup {n}
                    /\ response' = Resp("invoice_update", 200, i.id)
    /\ UNCHANGED <<nextInvoiceId, payments, nextPaymentId>>
    /\ FinanceFrame

\* PATCH /invoices/{id}/
InvoicePartialUpdate(i, data) ==
    /\ IF ~InvoiceFieldsValid(data, TRUE)
       THEN /\ response' = Resp("invoice_partial_update", 400, i.id)
            /\ UNCHANGED invoices
       ELSE LET n == InvoiceSave(InvoiceApply(i,
                        validated_data(data, InvoiceSerializer_read_only_fields)))
            IN IF ~InvoiceUnique(n)
               THEN /\ response' = Resp("invoice_partial_update", 500, i.id)
                    /\ UNCHANGED invoices
               ELSE /\ invoices' = (invoices \ {i}) \cup {n}
                    /\ response' = Resp("invoice_partial_update", 200, i.id)
    /\ UNCHANGED <<nextInvoiceId, payments, nextPaymentId>>
    /\ FinanceFrame

\* admin console, change invoice: the form posts every editable field
InvoiceAdminChange(i, data) ==
    /\ IF ~InvoiceFieldsValid(data, FALSE)
       THEN /\ response' = Resp("invoice_admin_change", 200, i.id)
            /\ UNCHANGED invoices
       ELSE LET n == InvoiceSave(InvoiceApply(i,
                        validated_data(data, InvoiceAdmin_readonly_fields)))
            IN IF ~InvoiceUnique(n)
               THEN /\ response' = Resp("invoice_admin_change", 500, i.id)
                    /\ UNCHANGED invoices
               ELSE /\ invoices' = (invoices \ {i}) \cup {n}
                    /\ response' = Resp("invoice_admin_change", 302, i.id)
    /\ UNCHANGED <<nextInvoiceId, payments, nextPaymentId>>
    /\ FinanceFrame

\* variant: the collector follows Payment.invoice only
InvoiceCascadePayments(i) ==
    [payments |-> {p \in payments : p.invoice = i.id}, items |-> {}]

\* the rows the deletion collector gathers for an invoice: the rows whose
\* CASCADE foreign key names it (InvoiceItem.invoice, Payment.invoice)
InvoiceCascade(i) ==
    [payments |-> {p \in payments : p.invoice = i.id},
     items |-> {it \in invoiceItems : it.invoice = i.id}]

\* DELETE /invoices/{id}/: the items and the payments of the invoice go with
\* it in the same delete
InvoiceDestroy(i) ==
    /\ invoices' = invoices \ {i}
    /\ payments' = payments \ InvoiceCascade(i).payments
    /\ invoiceItems' = invoiceItems \ InvoiceCascade(i).items
    /\ response' = Resp("invoice_destroy", 204, i.id)
    /\ UNCHANGED <<nextInvoiceId, nextPaymentId, nextInvoiceItemId>>
    /\ InvoiceFrame

(***************************************************************************)
(* finance: Payment                                                        *)
(***************************************************************************)
Payment_STATUS_CHOICES == <<"pending", "completed", "failed", "cancelled">>

PaymentKeys == {"invoice", "amount", "status"}

PaymentFieldValues(key) ==
    CASE key = "invoice" -> InvoiceIds
      [] key = "amount" -> 0..MaxAmount
      [] key = "status" -> DOMAIN Payment_STATUS_CHOICES

PaymentPayloads ==
    UNION { { d \in [K -> 0..(4 + MaxInvoices + MaxAmount)] :
                \A k \in K : d[k] \in PaymentFieldValues(k) } :
            K \in SUBSET PaymentKeys }

\* ModelSerializer field validation of PaymentSerializer: payment_number is
\* read only, the invoice must exist, amount is at least 0.01
PaymentFieldsValid(data, partial) ==
    /\ "invoice" \in DOMAIN data => \E i \in invoices : i.id = data["invoice"]
    /\ "amount" \in DOMAIN data => data["amount"] >= 1
    /\ ~partial => {"invoice", "amount"} \subseteq DOMAIN data

PaymentApply(p, data) ==
    [id |-> p.id,
     payment_number |-> p.payment_number,
     invoice |-> IF "invoice" \in DOMAIN data THEN data["invoice"] ELSE p.invoice,
     amount |-> IF "amount" \in DOMAIN data THEN data["amount"] ELSE p.amount,
     status |-> IF "status" \in DOMAIN data
                THEN Payment_STATUS_CHOICES[data["status"]] ELSE p.status]

\* unique=True on payment_number
PaymentUnique(p) ==
    \A o \in payments : o.id # p.id => o.payment_number # p.payment_number

\* Payment.save: generate the number when none is provided
PaymentSave(p) ==
    IF p.payment_number = EmptyNumber
    THEN [p EXCEPT !.payment_number = Number("PAY", clock)]
    ELSE p

\* variant: a stored payment that settles its invoice marks the invoice paid
PaymentCreateSettling(data) ==
    /\ nextPaymentId <= MaxPayments
    /\ IF ~PaymentFieldsValid(data, FALSE)
       THEN /\ response' = Resp("payment_create", 400, NULL)
            /\ UNCHANGED <<payments, nextPaymentId, invoices>>
       ELSE LET p == PaymentSave(PaymentApply(
                        [id |-> nextPaymentId, payment_number |-> EmptyNumber,
                         invoice |-> NULL, amount |-> 0, status |-> "pending"], data))
                paid == Sum({o \in payments : o.invoice = p.invoice}, "amount") + p.amount
            IN IF ~PaymentUnique(p)
               THEN /\ response' = Resp("payment_create", 500, NULL)
                    /\ UNCHANGED <<payments, nextPaymentId, invoices>>
               ELSE /\ payments' = payments \cup {p}
                    /\ nextPaymentId' = nextPaymentId + 1
                    /\ invoices' = {IF i.id = p.invoice /\ paid >= i.total_amount
                                    THEN [i EXCEPT !.status = "paid"] ELSE i :
                                    i \in invoices}
                    /\ response' = Resp("payment_create", 201, p.id)
    /\ UNCHANGED nextInvoiceId
    /\ FinanceFrame

\* POST /payments/
PaymentCreate(data) ==
    /\ nextPaymentId <= MaxPayments
    /\ IF ~PaymentFieldsValid(data, FALSE)
       THEN /\ response' = Resp("payment_create", 400, NULL)
            /\ UNCHANGED <<payments, nextPaymentId>>
       ELSE LET p == PaymentSave(PaymentApply(
                        [id |-> nextPaymentId, payment_number |-> EmptyNumber,
                         invoice |-> NULL, amount |-> 0, status |-> "pending"], data))
            IN IF ~PaymentUnique(p)
               THEN /\ response' = Resp("payment_create", 500, NULL)
                    /\ UNCHANGED <<payments, nextPaymentId>>
               ELSE /\ payments' = payments \cup {p}
                    /\ nextPaymentId' = nextPaymentId + 1
                    /\ response' = Resp("payment_create", 201, p.id)
    /\ UNCHANGED <<invoices, nextInvoiceId>>
    /\ FinanceFrame

\* PUT /payments/{id}/
PaymentUpdate(p, data) ==
    /\ IF ~PaymentFieldsValid(data, FALSE)
       THEN /\ response' = Resp("payment_update", 400, p.id)
            /\ UNCHANGED payments
       ELSE LET n == PaymentSave(PaymentApply(p, data))
            IN IF ~PaymentUnique(n)
               THEN /\ response' = Resp("payment_update", 500, p.id)
                    /\ UNCHANGED payments
               ELSE /\ payments' = (payments \ {p}) \cup {n}
                    /\ response' = Resp("payment_update", 200, p.id)
    /\ UNCHANGED <<invoices, nextInvoiceId, nextPaymentId>>
    /\ FinanceFrame

\* PATCH /payments/{id}/
PaymentPartialUpdate(p, data) ==
    /\ IF ~PaymentFieldsValid(data, TRUE)
       THEN /\ response' = Resp("payment_partial_update", 400, p.id)
            /\ UNCHANGED payments
       ELSE LET n == PaymentSave(PaymentApply(p, data))
            IN IF ~PaymentUnique(n)
               THEN /\ response' = Resp("payment_partial_update", 500, p.id)
                    /\ UNCHANGED payments
               ELSE /\ payments' = (payments \ {p}) \cup {n}
                    /\ response' = Resp("payment_partial_update", 200, p.id)
    /\ UNCHANGED <<invoices, nextInvoiceId, nextPaymentId>>
    /\ FinanceFrame

\* DELETE /payments/{id}/
PaymentDestroy(p) ==
    /\ payments' = payments \ {p}
    /\ response' = Resp("payment_destroy", 204, p.id)
    /\ UNCHANGED <<invoices, nextInvoiceId, nextPaymentId>>
    /\ FinanceFrame

(***************************************************************************)
(* finance: InvoiceItem (admin console only, no REST resource)             *)
(* Decimal columns with two decimal places are held in hundredths:         *)
(* quantity 50 is 0.50, unit_price 3 is 0.03, discount_percentage 2500 is  *)
(* 25.00 percent.                                                          *)
(***************************************************************************)
InvoiceItemIds == 1..MaxInvoiceItems

\* quantity: MinValueValidator(0.01)
ItemQuantities == {1} \cup {50 * k : k \in 1..MaxItemQuantity}

\* unit_price: MinValueValidator(0.00)
UnitPrices == 0..MaxUnitPrice

\* discount_percentage: between 0.00 and 100.00
DiscountPercentages == {0, 2500, 5000, 10000}

\* line_total as the form submits it: MinValueValidator(0.00)
LineTotals == 0..MaxLineTotal

\* unit_price * quantity, in units of 10^-4
Gross(unit_price, quantity) == unit_price * quantity

\* InvoiceItem.save, the value it assigns to self.line_total:
\*   (unit_price * quantity) - (unit_price * quantity * discount_percentage) / 100
\* exact in Decimal arithmetic, here in units of 10^-8
LineTotalExact(unit_price, quantity, discount_percentage) ==
    Gross(unit_price, quantity) * 10000 -
        Gross(unit_price, quantity) * discount_percentage

\* DecimalField(decimal_places=2) on the way to the database: the value is
\* rounded to hundredths; an exact half goes to the even hundredth where the
\* mapper quantizes (sqlite) and away from zero where the database rounds the
\* numeric column (PostgreSQL), so both outcomes are possible
RoundToPlaces(x8) ==
    LET q == x8 \div 1000000
        r == x8 % 1000000
    IN IF r < 500000 THEN {q}
       ELSE IF r > 500000 THEN {q + 1}
       ELSE {q + (q % 2), q + 1}

\* variant: the line total the form submitted is kept
InvoiceItemSaveKeeping(it) == {it}

\* InvoiceItem.save: the rows the save can store for the instance
InvoiceItemSave(it) ==
    {[it EXCEPT !.line_total = lt] :
        lt \in RoundToPlaces(LineTotalExact(it.unit_price, it.quantity,
                                            it.discount_percentage))}

\* InvoiceItemAdmin form validation: the invoice exists and every number
\* passes the validators of its column
InvoiceItemFormValid(it) ==
    /\ \E i \in invoices : i.id = it.invoice
    /\ it.quantity >= 1
    /\ it.unit_price >= 0
    /\ it.discount_percentage >= 0 /\ it.discount_percentage <= 10000
    /\ it.line_total >= 0

\* admin console, add invoice item
InvoiceItemAdminAdd(invoice, quantity, unit_price, discount_percentage, line_total) ==
    /\ nextInvoiceItemId <= MaxInvoiceItems
    /\ LET it == [id |-> nextInvoiceItemId, invoice |-> invoice,
                  quantity |-> quantity, unit_price |-> unit_price,
                  discount_percentage |-> discount_percentage,
                  line_total |-> line_total]
       IN IF InvoiceItemFormValid(it)
          THEN /\ \E row \in InvoiceItemSave(it) :
                      invoiceItems' = invoiceItems \cup {row}
               /\ nextInvoiceItemId' = nextInvoiceItemId + 1
               /\ response' = Resp("invoice_item_admin_add", 302, it.id)
          ELSE /\ response' = Resp("invoice_item_admin_add", 200, NULL)
               /\ UNCHANGED <<invoiceItems, nextInvoiceItemId>>
    /\ UNCHANGED financeVars
    /\ InvoiceFrame

\* admin console, change invoice item
InvoiceItemAdminChange(old, invoice, quantity, unit_price, discount_percentage, line_total) ==
    /\ LET it == [id |-> old.id, invoice |-> invoice,
                  quantity |-> quantity, unit_price |-> unit_price,
                  discount_percentage |-> discount_percentage,
                  line_total |-> line_total]
       IN IF InvoiceItemFormValid(it)
          THEN /\ \E row \in InvoiceItemSave(it) :
                      invoiceItems' = (invoiceItems \ {old}) \cup {row}
               /\ response' = Resp("invoice_item_admin_change", 302, it.id)
          ELSE /\ response' = Resp("invoice_item_admin_change", 200, old.id)
               /\ UNCHANGED invoiceItems
    /\ UNCHANGED <<financeVars, nextInvoiceItemId>>
    /\ InvoiceFrame

\* admin console, delete invoice item
InvoiceItemAdminDelete(it) ==
    /\ invoiceItems' = invoiceItems \ {it}
    /\ response' = Resp("invoice_item_admin_delete", 302, it.id)
    /\ UNCHANGED <<financeVars, nextInvoiceItemId>>
    /\ InvoiceFrame

(***************************************************************************)
(* finance: Account, Transaction, Expense                                  *)
(* Account.parent is a CASCADE key to another account; the account keys of *)
(* Transaction and Expense are PROTECT keys.                               *)
(***************************************************************************)
AccountIds == 1..MaxAccounts

\* the rows the deletion collector gathers from a set of accounts: the
\* accounts whose parent is among them, and theirs in turn
RECURSIVE AccountCollect(_)
AccountCollect(S) ==
    LET T == S \cup {c \in accounts : c.parent \in {x.id : x \in S}}
    IN IF T = S THEN S ELSE AccountCollect(T)

\* variant: only Transaction.debit_account and credit_account protect
AccountProtectedByTransactions(S) ==
    \E t \in transactions :
        t.debit_account \in {x.id : x \in S} \/ t.credit_account \in {x.id : x \in S}

\* PROTECT: a collected account is named by a transaction or an expense
AccountProtected(S) ==
    \/ \E t \in transactions :
          t.debit_account \in {x.id : x \in S} \/ t.credit_account \in {x.id : x \in S}
    \/ \E x \in expenses : x.account \in {y.id : y \in S}

\* AccountSerializer validation: code is unique, parent names a stored
\* account (which may be the account itself or one below it)
AccountFieldsValid(id, code, parent) ==
    /\ \A o \in accounts : o.id # id => o.code # code
    /\ parent # NULL => \E o \in accounts : o.id = parent

\* POST /accounts/
AccountCreate(code, parent) ==
    /\ nextAccountId <= MaxAccounts
    /\ IF AccountFieldsValid(nextAccountId, code, parent)
       THEN /\ accounts' = accounts \cup
                    {[id |-> nextAccountId, code |-> code, parent |-> parent]}
            /\ nextAccountId' = nextAccountId + 1
            /\ response' = Resp("account_create", 201, nextAccountId)
       ELSE /\ response' = Resp("account_create", 400, NULL)
            /\ UNCHANGED <<accounts, nextAccountId>>
    /\ UNCHANGED <<transactions, nextTransactionId, expenses, nextExpenseId>>
    /\ LedgerFrame

\* PATCH /accounts/{id}/ with a parent
AccountPartialUpdate(a, parent) ==
    /\ a \in accounts
    /\ IF AccountFieldsValid(a.id, a.code, parent)
       THEN /\ accounts' = (accounts \ {a}) \cup {[a EXCEPT !.parent = parent]}
            /\ response' = Resp("account_partial_update", 200, a.id)
       ELSE /\ response' = Resp("account_partial_update", 400, a.id)
            /\ UNCHANGED accounts
    /\ UNCHANGED <<nextAccountId, transactions, nextTransactionId, expenses,
                   nextExpenseId>>
    /\ LedgerFrame

\* DELETE /accounts/{id}/: the collector gathers the account and the accounts
\* below it and raises ProtectedError before it deletes anything
AccountDestroy(a) ==
    /\ a \in accounts
    /\ IF AccountProtected(AccountCollect({a}))
       THEN /\ response' = Resp("account_destroy", 500, a.id)
            /\ UNCHANGED accounts
       ELSE /\ accounts' = accounts \ AccountCollect({a})
            /\ response' = Resp("account_destroy", 204, a.id)
    /\ UNCHANGED <<nextAccountId, transactions, nextTransactionId, expenses,
                   nextExpenseId>>
    /\ LedgerFrame

\* unique=True on transaction_number
TransactionUnique(t) ==
    \A o \in transactions : o.id # t.id => o.transaction_number # t.transaction_number

\* Transaction.save: generate the number when none is provided
TransactionSave(t) ==
    IF t.transaction_number = EmptyNumber
    THEN [t EXCEPT !.transaction_number = Number("TXN", clock)]
    ELSE t

\* POST /transactions/
TransactionCreate(debit_account, credit_account) ==
    /\ nextTransactionId <= MaxTransactions
    /\ IF ~(\E a \in accounts : a.id = debit_account)
           \/ ~(\E a \in accounts : a.id = credit_account)
       THEN /\ response' = Resp("transaction_create", 400, NULL)
            /\ UNCHANGED <<transactions, nextTransactionId>>
       ELSE LET t == TransactionSave([id |-> nextTransactionId,
                                      transaction_number |-> EmptyNumber,
                                      debit_account |-> debit_account,
                                      credit_account |-> credit_account])
            IN IF ~TransactionUnique(t)
               THEN /\ response' = Resp("transaction_create", 500, NULL)
                    /\ UNCHANGED <<transactions, nextTransactionId>>
               ELSE /\ transactions' = transactions \cup {t}
                    /\ nextTransactionId' = nextTransactionId + 1
                    /\ response' = Resp("transaction_create", 201, t.id)
    /\ UNCHANGED <<accounts, nextAccountId, expenses, nextExpenseId>>
    /\ LedgerFrame

\* DELETE /transactions/{id}/
TransactionDestroy(t) ==
    /\ t \in transactions
    /\ transactions' = transactions \ {t}
    /\ response' = Resp("transaction_destroy", 204, t.id)
    /\ UNCHANGED <<accounts, nextAccountId, nextTransactionId, expenses, nextExpenseId>>
    /\ LedgerFrame

\* unique=True on expense_number
ExpenseUnique(x) ==
    \A o \in expenses : o.id # x.id => o.expense_number # x.expense_number

\* Expense.save: generate the number when none is provided
ExpenseSave(x) ==
    IF x.expense_number = EmptyNumber
    THEN [x EXCEPT !.expense_number = Number("EXP", clock)]
    ELSE x

\* admin console, add expense (Expense has no REST resource)
ExpenseAdminAdd(account) ==
    /\ nextExpenseId <= MaxExpenses
    /\ IF ~(\E a \in accounts : a.id = account)
       THEN /\ response' = Resp("expense_admin_add", 200, NULL)
            /\ UNCHANGED <<expenses, nextExpenseId>>
       ELSE LET x == ExpenseSave([id |-> nextExpenseId,
                                  expense_number |-> EmptyNumber,
                                  account |-> account])
            IN IF ~ExpenseUnique(x)
               THEN /\ response' = Resp("expense_admin_add", 500, NULL)
                    /\ UNCHANGED <<expenses, nextExpenseId>>
               ELSE /\ expenses' = expenses \cup {x}
                    /\ nextExpenseId' = nextExpenseId + 1
                    /\ response' = Resp("expense_admin_add", 302, x.id)
    /\ UNCHANGED <<accounts, nextAccountId, transactions, nextTransactionId>>
    /\ LedgerFrame

\* admin console, delete expense
ExpenseAdminDelete(x) ==
    /\ x \in expenses
    /\ expenses' = expenses \ {x}
    /\ response' = Resp("expense_admin_delete", 302, x.id)
    /\ UNCHANGED <<accounts, nextAccountId, transactions, nextTransactionId,
                   nextExpenseId>>
    /\ LedgerFrame

(***************************************************************************)
(* accounts: strings of a request body                                     *)
(* A string is a sequence of characters; an e-mail address is a name with  *)
(* or without white space around it.                                       *)
(***************************************************************************)
RECURSIVE Repeat(_, _)
Repeat(c, n) == IF n = 0 THEN <<>> ELSE <<c>> \o Repeat(c, n - 1)

\* str.strip(): white space is removed from both ends
RECURSIVE strip(_)
strip(str) ==
    IF str = <<>> THEN str
    ELSE IF Head(str) = " " THEN strip(Tail(str))
    ELSE IF str[Len(str)] = " " THEN strip(SubSeq(str, 1, Len(str) - 1))
    ELSE str

\* serializers.CharField.to_internal_value with trim_whitespace (the default)
CharField(str) == strip(str)

\* the same for an e-mail address
EmailStrip(email) == [email EXCEPT !.padded = FALSE]

\* RegisterSerializer.password: min_length=8
min_length == 8

EmailNames == 1..MaxEmails
Emails == [name : EmailNames, padded : BOOLEAN]
Usernames == 1..MaxEmails

\* passwords a client sends: one character short of min_length, min_length
\* long, the latter with another last character, each with or without white
\* space before or after it
Passwords ==
    {lead \o core \o trail :
        lead \in {<<>>, <<" ">>},
        core \in {Repeat("a", min_length - 1), Repeat("a", min_length),
                  Repeat("a", min_length - 1) \o <<"b">>},
        trail \in {<<>>, <<" ">>}}

(***************************************************************************)
(* accounts: registration                                                  *)
(***************************************************************************)
\* RegisterSerializer field validation, on the values the fields return:
\* every field is required and not blank (an absent value is the empty
\* string here: both are refused), username and email are unique,
\* password has at least min_length characters
RegisterFieldsValid(username, email, password, password_confirm) ==
    /\ ~(\E u \in users : u.username = username)
    /\ ~(\E u \in users : u.email = EmailStrip(email).name)
    /\ CharField(password) # <<>> /\ CharField(password_confirm) # <<>>
    /\ Len(CharField(password)) >= min_length

\* RegisterSerializer.validate: on the validated (trimmed) values
RegisterSerializerValidate(password, password_confirm) ==
    ~(CharField(password) # CharField(password_confirm))

\* POST /register/: RegisterView.post, RegisterSerializer.create
Register(username, email, password, password_confirm) ==
    /\ nextUserId <= MaxUsers
    /\ IF /\ RegisterFieldsValid(username, email, password, password_confirm)
          /\ RegisterSerializerValidate(password, password_confirm)
       THEN /\ users' = users \cup
                   {[id |-> nextUserId, username |-> username,
                     email |-> EmailStrip(email).name,
                     password |-> CharField(password)]}
            /\ nextUserId' = nextUserId + 1
            /\ response' = Resp("register", 201, nextUserId)
       ELSE /\ response' = Resp("register", 400, NULL)
            /\ UNCHANGED <<users, nextUserId>>
    /\ UNCHANGED <<userSessions, nextUserSessionId, requestUser>>
    /\ AccountsFrame

(***************************************************************************)
(* accounts: login                                                         *)
(***************************************************************************)
CookieKeys == 1..MaxCookies

\* str(uuid.uuid4()): a key no stored session and no cookie holds
uuid4 == MaxCookies + nextUserSessionId

\* authenticate(): the users whose natural key is the validated e-mail
\* address and whose password checks
authenticate(email, password) ==
    {u \in users : u.email = email.name /\ ~email.padded /\ u.password = password}

\* UserSession.session_key, unique=True
UserSessionUnique(session_key) ==
    ~(\E us \in userSessions : us.session_key = session_key)

\* User.objects.get(email=request.data.get("email") or ...): the users whose
\* address is the address as it was sent
LoginLookup(email) == {u \in users : u.email = email.name /\ ~email.padded}

\* POST /login/: LoginView.post.  email is the e-mail address as the client
\* sent it, cookie the key of the session cookie of the request (NULL when
\* the request has none)
Login(email, password, cookie) ==
    /\ nextUserSessionId <= MaxUserSessions
    /\ LET \* super().post(): the serializer trims the address, then authenticates
           valid == authenticate(EmailStrip(email), password)
           found == LoginLookup(email)
           session_key == IF cookie # NULL THEN cookie ELSE uuid4
       IN IF valid = {}
          THEN /\ response' = Resp("login", 401, NULL)
               /\ UNCHANGED <<userSessions, nextUserSessionId>>
          ELSE IF found = {}
          THEN \* User.DoesNotExist
               /\ response' = Resp("login", 500, NULL)
               /\ UNCHANGED <<userSessions, nextUserSessionId>>
          ELSE IF ~UserSessionUnique(session_key)
          THEN \* IntegrityError
               /\ response' = Resp("login", 500, NULL)
               /\ UNCHANGED <<userSessions, nextUserSessionId>>
          ELSE LET user == CHOOSE u \in found : TRUE
               IN /\ userSessions' = userSessions \cup
                         {[id |-> nextUserSessionId, user |-> user.id,
                           session_key |-> session_key]}
                  /\ nextUserSessionId' = nextUserSessionId + 1
                  /\ response' = Resp("login", 200, user.id)
    /\ UNCHANGED <<users, nextUserId, requestUser>>
    /\ AccountsFrame

(***************************************************************************)
(* accounts: RolePermission and UserRole (admin console only)              *)
(***************************************************************************)
RoleIds == 1..MaxRoles
PermissionIds == 1..MaxPermissions

\* variant: RolePermission without unique_together
RolePermissionUniqueDropped(rp) == TRUE

\* RolePermission.Meta.unique_together = ['role', 'permission']: no other
\* row holds the pair.  The admin form checks it (validate_unique) and the
\* database enforces it with a unique index.
RolePermissionUnique(rp) ==
    ~(\E o \in rolePermissions :
          o.id # rp.id /\ o.role = rp.role /\ o.permission = rp.permission)

\* UserRole.Meta.unique_together = ['user', 'role']
UserRoleUnique(ur) ==
    ~(\E o \in userRoles : o.id # ur.id /\ o.user = ur.user /\ o.role = ur.role)

\* admin console, add role permission
RolePermissionAdminAdd(role, permission, granted) ==
    /\ nextRolePermissionId <= MaxRolePermissions
    /\ LET rp == [id |-> nextRolePermissionId, role |-> role,
                  permission |-> permission, granted |-> granted]
       IN IF role \in RoleIds /\ permission \in PermissionIds /\ RolePermissionUnique(rp)
          THEN /\ rolePermissions' = rolePermissions \cup {rp}
               /\ nextRolePermissionId' = nextRolePermissionId + 1
               /\ response' = Resp("role_permission_admin_add", 302, rp.id)
          ELSE /\ response' = Resp("role_permission_admin_add", 200, NULL)
               /\ UNCHANGED <<rolePermissions, nextRolePermissionId>>
    /\ UNCHANGED <<userRoles, nextUserRoleId>>
    /\ RoleFrame

\* admin console, change role permission
RolePermissionAdminChange(old, role, permission, granted) ==
    /\ LET rp == [id |-> old.id, role |-> role,
                  permission |-> permission, granted |-> granted]
       IN IF role \in RoleIds /\ permission \in PermissionIds /\ RolePermissionUnique(rp)
          THEN /\ rolePermissions' = (rolePermissions \ {old}) \cup {rp}
               /\ response' = Resp("role_permission_admin_change", 302, rp.id)
          ELSE /\ response' = Resp("role_permission_admin_change", 200, old.id)
               /\ UNCHANGED rolePermissions
    /\ UNCHANGED <<nextRolePermissionId, userRoles, nextUserRoleId>>
    /\ RoleFrame

\* admin console, delete role permission
RolePermissionAdminDelete(rp) ==
    /\ rolePermissions' = rolePermissions \ {rp}
    /\ response' = Resp("role_permission_admin_delete", 302, rp.id)
    /\ UNCHANGED <<nextRolePermissionId, userRoles, nextUserRoleId>>
    /\ RoleFrame

\* admin console, add user role
UserRoleAdminAdd(user, role, is_active) ==
    /\ nextUserRoleId <= MaxUserRoles
    /\ LET ur == [id |-> nextUserRoleId, user |-> user, role |-> role,
                  is_active |-> is_active]
       IN IF (\E u \in users : u.id = user) /\ role \in RoleIds /\ UserRoleUnique(ur)
          THEN /\ userRoles' = userRoles \cup {ur}
               /\ nextUserRoleId' = nextUserRoleId + 1
               /\ response' = Resp("user_role_admin_add", 302, ur.id)
          ELSE /\ response' = Resp("user_role_admin_add", 200, NULL)
               /\ UNCHANGED <<userRoles, nextUserRoleId>>
    /\ UNCHANGED <<rolePermissions, nextRolePermissionId>>
    /\ RoleFrame

\* admin console, change user role
UserRoleAdminChange(old, user, role, is_active) ==
    /\ LET ur == [id |-> old.id, user |-> user, role |-> role,
                  is_active |-> is_active]
       IN IF (\E u \in users : u.id = user) /\ role \in RoleIds /\ UserRoleUnique(ur)
          THEN /\ userRoles' = (userRoles \ {old}) \cup {ur}
               /\ response' = Resp("user_role_admin_change", 302, ur.id)
          ELSE /\ response' = Resp("user_role_admin_change", 200, old.id)
               /\ UNCHANGED userRoles
    /\ UNCHANGED <<nextUserRoleId, rolePermissions, nextRolePermissionId>>
    /\ RoleFrame

\* admin console, delete user role
UserRoleAdminDelete(ur) ==
    /\ userRoles' = userRoles \ {ur}
    /\ response' = Resp("user_role_admin_delete", 302, ur.id)
    /\ UNCHANGED <<nextUserRoleId, rolePermissions, nextRolePermissionId>>
    /\ RoleFrame

(***************************************************************************)
(* Authentication and permission of a request                              *)
(***************************************************************************)
\* the client starts to send the access token of a stored user
PresentToken(user) ==
    /\ \E u \in users : u.id = user
    /\ requestUser # user
    /\ requestUser' = user
    /\ UNCHANGED <<clock, response, dbVars>>

\* the client stops sending a token (or the token has expired)
DropToken ==
    /\ requestUser # NULL
    /\ requestUser' = NULL
    /\ UNCHANGED <<clock, response, dbVars>>

\* IsAuthenticated.has_permission, AllowAny.has_permission
has_permission(permission, user) ==
    CASE permission = "IsAuthenticated" -> user # NULL
      [] permission = "AllowAny" -> TRUE

\* permission_classes of the views
LoginView_permission_classes == {"AllowAny"}
RegisterView_permission_classes == {"AllowAny"}
AddressViewSet_permission_classes == {"IsAuthenticated"}
\* variant: the invoice resource is open to everyone
InvoiceViewSet_AllowAny == {"AllowAny"}

InvoiceViewSet_permission_classes == {"IsAuthenticated"}
InventoryViewSet_permission_classes == {"IsAuthenticated"}
ServiceRequestViewSet_permission_classes == {"IsAuthenticated"}
UserProfileView_permission_classes == {"IsAuthenticated"}
AuditLogViewSet_permission_classes == {"IsAuthenticated"}

\* APIView.initial, check_permissions: a request that a permission class
\* refuses is answered 401 and its handler does not run
Dispatch(permission_classes, op, handler) ==
    IF \A permission \in permission_classes : has_permission(permission, requestUser)
    THEN handler
    ELSE /\ response' = Resp(op, 401, NULL)
         /\ UNCHANGED <<clock, requestUser, dbVars>>

(***************************************************************************)
(* accounts: the me/ endpoint (UserProfileView)                            *)
(***************************************************************************)
UserProfileKeys == {"id", "username", "email"}

UserProfileFieldValues(key) ==
    CASE key = "id" -> 1..MaxUsers
      [] key = "username" -> Usernames
      [] key = "email" -> Emails

\* every request body a client can send to me/
UserProfilePayloads ==
    LET Sent(key) == {[k \in {} |-> NULL]} \cup
                     {(key :> v) : v \in UserProfileFieldValues(key)}
    IN {a @@ b @@ c : a \in Sent("id"), b \in Sent("username"), c \in Sent("email")}

\* variant: only id is read only
UserProfileSerializer_read_only_id == {"id"}

\* UserProfileSerializer.Meta.read_only_fields
UserProfileSerializer_read_only_fields == {"id", "username"}

\* UserProfileView.get_object: the row of request.user
UserProfileView_get_object == {u \in users : u.id = requestUser}

\* field validation of UserProfileSerializer on the writable fields: email is
\* required in a full body, email and username are unique among the other
\* users (UniqueValidator excludes the instance)
UserProfileFieldsValid(u, data, partial) ==
    /\ ~partial => "email" \in DOMAIN data
    /\ "email" \in DOMAIN data =>
           ~(\E o \in users : o.id # u.id /\ o.email = EmailStrip(data["email"]).name)
    /\ "username" \in DOMAIN data =>
           ~(\E o \in users : o.id # u.id /\ o.username = data["username"])

\* ModelSerializer.update: setattr for every validated key
UserProfileApply(u, data) ==
    [id |-> u.id,
     username |-> IF "username" \in DOMAIN data THEN data["username"] ELSE u.username,
     email |-> IF "email" \in DOMAIN data
               THEN EmailStrip(data["email"]).name ELSE u.email,
     password |-> u.password]

\* GET /me/
UserProfileGet ==
    /\ \E u \in UserProfileView_get_object :
          response' = Resp("user_profile_get", 200, u.id)
    /\ UNCHANGED <<accountsVars, requestUser>>
    /\ AccountsFrame

\* PUT /me/
UserProfilePut(data) ==
    /\ \E u \in UserProfileView_get_object :
          LET valid == validated_data(data, UserProfileSerializer_read_only_fields)
          IN IF UserProfileFieldsValid(u, valid, FALSE)
             THEN /\ users' = (users \ {u}) \cup {UserProfileApply(u, valid)}
                  /\ response' = Resp("user_profile_put", 200, u.id)
             ELSE /\ response' = Resp("user_profile_put", 400, u.id)
                  /\ UNCHANGED users
    /\ UNCHANGED <<nextUserId, userSessions, nextUserSessionId, requestUser>>
    /\ AccountsFrame

\* PATCH /me/
UserProfilePatch(data) ==
    /\ \E u \in UserProfileView_get_object :
          LET valid == validated_data(data, UserProfileSerializer_read_only_fields)
          IN IF UserProfileFieldsValid(u, valid, TRUE)
             THEN /\ users' = (users \ {u}) \cup {UserProfileApply(u, valid)}
                  /\ response' = Resp("user_profile_patch", 200, u.id)
             ELSE /\ response' = Resp("user_profile_patch", 400, u.id)
                  /\ UNCHANGED users
    /\ UNCHANGED <<nextUserId, userSessions, nextUserSessionId, requestUser>>
    /\ AccountsFrame

(***************************************************************************)
(* core: AuditLog                                                          *)
(* No view, admin page or signal of the repository writes the table; rows  *)
(* enter it through the model's manager.                                   *)
(***************************************************************************)
AuditLog_ACTION_TYPES == <<"create", "update", "delete", "view", "login", "logout">>

\* AuditLog(...).save() by code outside the interfaces: user and created_by
\* are nullable keys to stored users
AuditLogSave(user, created_by, action) ==
    /\ nextAuditLogId <= MaxAuditLogs
    /\ user # NULL => \E u \in users : u.id = user
    /\ created_by # NULL => \E u \in users : u.id = created_by
    /\ auditLogs' = auditLogs \cup
           {[id |-> nextAuditLogId, user |-> user, created_by |-> created_by,
             action |-> AuditLog_ACTION_TYPES[action]]}
    /\ nextAuditLogId' = nextAuditLogId + 1
    /\ response' = Resp("audit_log_save", NULL, nextAuditLogId)
    /\ UNCHANGED <<clock, requestUser, statsVars, coreVars, serviceVars, inventoryVars,
                   financeVars, itemVars, accountsVars, roleVars, priceVars,
                   ledgerVars>>

\* the actions a router maps to a ModelViewSet
ViewSetActions == {"list", "retrieve", "create", "update", "partial_update", "destroy"}

\* AuditLogViewSet(viewsets.ReadOnlyModelViewSet): list and retrieve
AuditLogViewSet_actions == {"list", "retrieve"}

\* a request to the audit-log resource: an action the view set does not have
\* is answered 405; user and action are writable in AuditLogSerializer
AuditLogViewSetView(action, pk, user, type) ==
    /\ IF action \notin AuditLogViewSet_actions
       THEN /\ response' = Resp("audit_log_" \o action, 405, NULL)
            /\ UNCHANGED auditVars
       ELSE IF action = "list"
       THEN /\ response' = Resp("audit_log_list", 200, NULL)
            /\ UNCHANGED auditVars
       ELSE IF action = "create"
       THEN /\ nextAuditLogId <= MaxAuditLogs
            /\ auditLogs' = auditLogs \cup
                   {[id |-> nextAuditLogId, user |-> user, created_by |-> NULL,
                     action |-> AuditLog_ACTION_TYPES[type]]}
            /\ nextAuditLogId' = nextAuditLogId + 1
            /\ response' = Resp("audit_log_create", 201, nextAuditLogId)
       ELSE IF ~(\E l \in auditLogs : l.id = pk)
       THEN /\ response' = Resp("audit_log_" \o action, 404, NULL)
            /\ UNCHANGED auditVars
       ELSE LET l == CHOOSE x \in auditLogs : x.id = pk
            IN /\ auditLogs' =
                     CASE action = "retrieve" -> auditLogs
                       [] action = "destroy" -> auditLogs \ {l}
                       [] OTHER -> (auditLogs \ {l}) \cup
                                   {[l EXCEPT !.user = user,
                                              !.action = AuditLog_ACTION_TYPES[type]]}
               /\ response' = Resp("audit_log_" \o action,
                                   IF action = "destroy" THEN 204 ELSE 200, pk)
               /\ UNCHANGED nextAuditLogId
    /\ UNCHANGED <<clock, requestUser, statsVars, coreVars, serviceVars, inventoryVars,
                   financeVars, itemVars, accountsVars, roleVars, priceVars,
                   ledgerVars>>

\* AuditLogAdmin.has_add_permission / has_change_permission
AuditLogAdmin_has_add_permission == FALSE
AuditLogAdmin_has_change_permission == FALSE

\* variant: the admin console may delete entries
AuditLogAdmin_may_delete == TRUE

\* AuditLogAdmin.has_delete_permission
AuditLogAdmin_has_delete_permission == FALSE

\* the add, change and delete views of AuditLogAdmin: 403 without the
\* permission of the view
AuditLogAdminView(view, pk, user, type) ==
    /\ view \in {"add", "change", "delete"}
    /\ LET permitted == CASE view = "add" -> AuditLogAdmin_has_add_permission
                          [] view = "change" -> AuditLogAdmin_has_change_permission
                          [] view = "delete" -> AuditLogAdmin_has_delete_permission
       IN IF ~permitted
          THEN /\ response' = Resp("audit_log_admin_" \o view, 403, NULL)
               /\ UNCHANGED auditVars
          ELSE IF view = "add"
          THEN /\ nextAuditLogId <= MaxAuditLogs
               /\ auditLogs' = auditLogs \cup
                      {[id |-> nextAuditLogId, user |-> user, created_by |-> NULL,
                        action |-> AuditLog_ACTION_TYPES[type]]}
               /\ nextAuditLogId' = nextAuditLogId + 1
               /\ response' = Resp("audit_log_admin_add", 302, nextAuditLogId)
          ELSE /\ \E l \in auditLogs :
                     /\ l.id = pk
                     /\ auditLogs' =
                            IF view = "delete" THEN auditLogs \ {l}
                            ELSE (auditLogs \ {l}) \cup
                                 {[l EXCEPT !.user = user,
                                            !.action = AuditLog_ACTION_TYPES[type]]}
               /\ response' = Resp("audit_log_admin_" \o view, 302, pk)
               /\ UNCHANGED nextAuditLogId
    /\ UNCHANGED <<clock, requestUser, statsVars, coreVars, serviceVars, inventoryVars,
                   financeVars, itemVars, accountsVars, roleVars, priceVars,
                   ledgerVars>>

\* on_delete=SET_NULL of AuditLog.user and of TimeStampedModel.created_by
\* (updated_by is declared like created_by)
AuditLog_SET_NULL(user) ==
    {[l EXCEPT !.user = IF l.user = user THEN NULL ELSE l.user,
               !.created_by = IF l.created_by = user THEN NULL ELSE l.created_by] :
        l \in auditLogs}

\* admin console, delete user (UserAdmin): the sessions and roles of the user
\* go with it (CASCADE), the audit-log entries that name it are kept with the
\* key set to NULL, and the user's access token stops authenticating
UserAdminDelete(u) ==
    /\ u \in users
    /\ users' = users \ {u}
    /\ userSessions' = {us \in userSessions : us.user # u.id}
    /\ userRoles' = {ur \in userRoles : ur.user # u.id}
    /\ auditLogs' = AuditLog_SET_NULL(u.id)
    /\ requestUser' = IF requestUser = u.id THEN NULL ELSE requestUser
    /\ response' = Resp("user_admin_delete", 302, u.id)
    /\ UNCHANGED <<nextUserId, nextUserSessionId, nextAuditLogId, rolePermissions,
                   nextRolePermissionId, nextUserRoleId>>
    /\ UNCHANGED <<clock, statsVars, coreVars, serviceVars, inventoryVars, financeVars, itemVars,
                   priceVars, ledgerVars>>

(***************************************************************************)
(* core: Contact fields and ContactViewSet.statistics                      *)
(* Every count() is one query of its own; the view opens no transaction,   *)
(* so other requests can commit between two of them.                       *)
(***************************************************************************)
CONTACT_TYPES == <<"customer", "supplier", "employee", "other">>

ContactKeys == {"is_active", "contact_type"}

\* is_active travels as 0 or 1, contact_type as the position of the choice
ContactPayloads ==
    UNION { { d \in [K -> 0..4] :
                /\ "is_active" \in K => d["is_active"] \in {0, 1}
                /\ "contact_type" \in K => d["contact_type"] \in DOMAIN CONTACT_TYPES } :
            K \in SUBSET ContactKeys }

\* PATCH /contacts/{id}/
ContactPartialUpdate(c, data) ==
    /\ c \in contacts
    /\ contactFields' = [contactFields EXCEPT ![c] =
           [is_active |-> IF "is_active" \in DOMAIN data
                          THEN data["is_active"] = 1 ELSE @.is_active,
            contact_type |-> IF "contact_type" \in DOMAIN data
                             THEN CONTACT_TYPES[data["contact_type"]]
                             ELSE @.contact_type]]
    /\ response' = Resp("contact_partial_update", 200, c)
    /\ UNCHANGED <<statistics, coreVars>>
    /\ UNCHANGED <<clock, requestUser, auditVars, serviceVars, inventoryVars,
                   financeVars, itemVars, accountsVars, roleVars, priceVars,
                   ledgerVars>>

\* what a query of the statistics view leaves alone: every table
StatisticsFrame ==
    UNCHANGED <<clock, requestUser, contactFields, auditVars, coreVars, serviceVars,
                inventoryVars, financeVars, itemVars, accountsVars, roleVars,
                priceVars, ledgerVars>>

\* Contact.objects.count()
ContactStatisticsTotal ==
    /\ statistics.pc = 0
    /\ statistics' = [pc |-> 1, total_contacts |-> Cardinality(contacts),
                      active_contacts |-> 0, inactive_contacts |-> 0,
                      by_type |-> <<>>]
    /\ UNCHANGED response
    /\ StatisticsFrame

\* Contact.objects.filter(is_active=True).count()
ContactStatisticsActive ==
    /\ statistics.pc = 1
    /\ statistics' = [statistics EXCEPT
           !.pc = 2,
           !.active_contacts =
               Cardinality({c \in contacts : contactFields[c].is_active})]
    /\ UNCHANGED response
    /\ StatisticsFrame

\* Contact.objects.filter(is_active=False).count()
ContactStatisticsInactive ==
    /\ statistics.pc = 2
    /\ statistics' = [statistics EXCEPT
           !.pc = 3,
           !.inactive_contacts =
               Cardinality({c \in contacts : ~contactFields[c].is_active})]
    /\ UNCHANGED response
    /\ StatisticsFrame

\* Contact.objects.filter(contact_type=contact_type).count() for the next
\* contact type; after the last one the view returns Response(stats)
ContactStatisticsByType ==
    /\ statistics.pc >= 3
    /\ LET contact_type == CONTACT_TYPES[statistics.pc - 2]
           count == Cardinality({c \in contacts :
                                    contactFields[c].contact_type = contact_type})
           last == statistics.pc - 2 = Len(CONTACT_TYPES)
       IN /\ statistics' = [statistics EXCEPT
                 !.pc = IF last THEN 0 ELSE statistics.pc + 1,
                 !.by_type = Append(statistics.by_type, count)]
          /\ response' = IF last THEN Resp("contact_statistics", 200, NULL)
                         ELSE response
    /\ StatisticsFrame

(***************************************************************************)
(* core: deleting a contact                                                *)
(***************************************************************************)
\* variant: service requests do not protect their customer
ProtectedByInvoices(c) == {i \in invoices : i.customer = c}

\* rows that reference the contact through a PROTECT foreign key
ProtectedBy(c) ==
    {i \in invoices : i.customer = c} \cup {r \in serviceRequests : r.customer = c}

\* DELETE /contacts/{id}/: the collector raises ProtectedError before any row
\* is deleted; otherwise the contact goes together with its addresses (CASCADE)
ContactDestroy(c) ==
    /\ c \in contacts
    /\ IF ProtectedBy(c) # {}
       THEN /\ response' = Resp("contact_destroy", 500, c)
            /\ UNCHANGED <<contacts, addresses>>
       ELSE /\ contacts' = contacts \ {c}
            /\ addresses' = {a \in addresses : a.contact # c}
            /\ response' = Resp("contact_destroy", 204, c)
    /\ UNCHANGED <<companies, nextAddressId>>
    /\ CoreFrame

(***************************************************************************)
(* Initial states: the parent tables hold their rows, the tables the       *)
(* requests write are empty.                                               *)
(***************************************************************************)
Init ==
    /\ clock = [day |-> 0, sec |-> 0, usec |-> 0]
    /\ response = Resp("none", 0, NULL)
    /\ contacts = ContactIds
    /\ companies = CompanyIds
    /\ addresses = {}
    /\ nextAddressId = 1
    /\ technicians = TechnicianIds
    /\ serviceRequests = {}
    /\ nextServiceRequestId = 1
    /\ schedules = {}
    /\ nextScheduleId = 1
    /\ products = ProductIds
    /\ productImages = {}
    /\ nextImageId = 1
    /\ imageForm = [w \in Workers |-> IdleForm]
    /\ inventoryItems = {}
    /\ nextItemId = 1
    /\ invoices = {}
    /\ nextInvoiceId = 1
    /\ payments = {}
    /\ nextPaymentId = 1
    /\ invoiceItems = {}
    /\ nextInvoiceItemId = 1
    /\ users = {}
    /\ nextUserId = 1
    /\ userSessions = {}
    /\ nextUserSessionId = 1
    /\ requestUser = NULL
    /\ rolePermissions = {}
    /\ nextRolePermissionId = 1
    /\ userRoles = {}
    /\ nextUserRoleId = 1
    /\ productPrices = [p \in ProductIds |-> [cost_price |-> 0, selling_price |-> 0]]
    /\ accounts = {}
    /\ nextAccountId = 1
    /\ transactions = {}
    /\ nextTransactionId = 1
    /\ expenses = {}
    /\ nextExpenseId = 1
    /\ auditLogs = {}
    /\ nextAuditLogId = 1
    /\ contactFields = [c \in ContactIds |-> [is_active |-> TRUE, contact_type |-> "customer"]]
    /\ statistics = [pc |-> 0, total_contacts |-> 0, active_contacts |-> 0,
                     inactive_contacts |-> 0, by_type |-> <<>>]

NextAddress ==
    \/ \E data \in AddressPayloads : AddressCreate(data)
    \/ \E a \in addresses, data \in AddressPayloads : AddressUpdate(a, data)
    \/ \E a \in addresses, data \in AddressPayloads : AddressPartialUpdate(a, data)
    \/ \E a \in addresses : AddressDestroy(a)
    \/ \E contact \in ContactIds \cup {NULL}, company \in CompanyIds \cup {NULL},
          city \in Cities : AddressAdminAdd(contact, company, city)

SpecAddress == Init /\ [][NextAddress]_vars

\* C1: every stored address references exactly one of a contact or a company,
\* never both and never neither, after any sequence of REST create, PUT and
\* PATCH requests.
C1_AddressExactlyOne ==
    \A a \in addresses : (a.contact # NULL) # (a.company # NULL)

\* Schedule resource and admin console, with service requests to schedule
NextSchedule ==
    \/ \E customer \in ContactIds : ServiceRequestCreate(customer, NULL)
    \/ \E data \in SchedulePayloads : ScheduleCreate(data)
    \/ \E s \in schedules, data \in SchedulePayloads : ScheduleUpdate(s, data)
    \/ \E s \in schedules, data \in SchedulePayloads : SchedulePartialUpdate(s, data)
    \/ \E technician \in TechnicianIds, service_request \in ServiceRequestIds,
          start_time \in Times, end_time \in Times :
            ScheduleAdminAdd(technician, service_request, start_time, end_time)
    \/ \E s \in schedules, technician \in TechnicianIds,
          service_request \in ServiceRequestIds,
          start_time \in Times, end_time \in Times :
            ScheduleAdminChange(s, technician, service_request, start_time, end_time)

SpecSchedule == Init /\ [][NextSchedule]_vars

\* C2: every stored schedule has end_time strictly after start_time; a create
\* or update with start_time >= end_time is rejected and stores nothing.
C2_ScheduleEndAfterStart ==
    \A s \in schedules : s.end_time > s.start_time

\* ProductImage admin console with several workers serving requests
NextImage ==
    \/ \E w \in Workers, product \in ProductIds, is_primary \in BOOLEAN :
          ImageAdminValidate(w, NULL, product, is_primary)
    \/ \E w \in Workers, img \in productImages, product \in ProductIds,
          is_primary \in BOOLEAN :
          ImageAdminValidate(w, img.id, product, is_primary)
    \/ \E w \in Workers : ImageAdminSave(w)
    \/ \E img \in productImages : ImageAdminDelete(img)

SpecImage == Init /\ [][NextImage]_vars

\* C3: each product has at most one product image with is_primary = true,
\* also when the saves of two images of the same product interleave.
C3_OnePrimaryImage ==
    \A p \in ProductIds :
        Cardinality({img \in productImages : img.product = p /\ img.is_primary}) <= 1

\* Inventory resource
NextStock ==
    \/ \E data \in ItemPayloads : InventoryCreate(data)
    \/ \E it \in inventoryItems, data \in ItemPayloads : InventoryUpdate(it, data)
    \/ \E it \in inventoryItems, data \in ItemPayloads : InventoryPartialUpdate(it, data)
    \/ \E it \in inventoryItems : InventoryDestroy(it)

SpecStock == Init /\ [][NextStock]_vars

\* C8: a product's current_stock is the sum of the quantities of the
\* inventory items that reference it, whatever their transaction_type, and 0
\* when it has none; every create, update and delete before the read counts.
RECURSIVE QuantityUpTo(_, _)
QuantityUpTo(p, n) ==
    IF n = 0 THEN 0
    ELSE QuantityUpTo(p, n - 1) +
         (IF \E it \in inventoryItems : it.id = n /\ it.product = p
          THEN (CHOOSE it \in inventoryItems : it.id = n).quantity
          ELSE 0)

C8_CurrentStockIsSum ==
    \A p \in ProductIds : current_stock(p) = QuantityUpTo(p, nextItemId - 1)

\* a product holding a stock-in and a stock-out item, both counted as they are
C8_Witness ==
    \E a \in inventoryItems, b \in inventoryItems :
        /\ a.product = b.product /\ a.id # b.id
        /\ a.transaction_type = "in" /\ b.transaction_type = "out"
        /\ a.quantity > 0 /\ b.quantity > 0
        /\ current_stock(a.product) = a.quantity + b.quantity

\* the payloads the numbering scenario sends
NumberingInvoicePayloads ==
    {d \in InvoicePayloads :
        /\ DOMAIN d = {"customer", "due_date", "total_amount"}
        /\ d["customer"] = 1 /\ d["due_date"] = 0 /\ d["total_amount"] = 1}

NumberingPaymentPayloads ==
    {d \in PaymentPayloads : DOMAIN d = {"invoice", "amount"} /\ d["amount"] = 1}

\* Creation of numbered documents while the clock runs
NextNumbering ==
    \/ Tick
    \/ \E data \in NumberingInvoicePayloads : InvoiceCreate(data)
    \/ \E i \in invoices, data \in NumberingInvoicePayloads : InvoiceUpdate(i, data)
    \/ \E data \in NumberingPaymentPayloads : PaymentCreate(data)
    \/ \E p \in payments, data \in NumberingPaymentPayloads : PaymentUpdate(p, data)
    \/ ServiceRequestCreate(1, NULL)

SpecNumbering == Init /\ [][NextNumbering]_vars

\* C4: no two invoices share an invoice_number (likewise payment_number and
\* request_number), and a save that would store a duplicate number is
\* rejected and leaves all stored rows unchanged.
NumbersDistinct ==
    /\ \A a \in invoices, b \in invoices :
           a.id # b.id => a.invoice_number # b.invoice_number
    /\ \A a \in payments, b \in payments :
           a.id # b.id => a.payment_number # b.payment_number
    /\ \A a \in serviceRequests, b \in serviceRequests :
           a.id # b.id => a.request_number # b.request_number

\* the step handles a create request whose generated number is already stored
DuplicateCreate ==
    /\ clock' = clock
    /\ \/ /\ response'.op = "invoice_create"
          /\ \E i \in invoices : i.invoice_number = Number("INV", clock)
       \/ /\ response'.op = "payment_create"
          /\ \E p \in payments : p.payment_number = Number("PAY", clock)
       \/ /\ response'.op = "service_request_create"
          /\ \E r \in serviceRequests : r.request_number = Number("SR", clock)

C4_UniqueNumbers ==
    /\ []NumbersDistinct
    /\ [][DuplicateCreate => (response'.status \notin {200, 201} /\ UNCHANGED dbVars)]_vars

\* a create was refused for its number while the first holder stays stored
C4_Witness ==
    /\ response.op = "invoice_create" /\ response.status = 500
    /\ \E i \in invoices : i.invoice_number = Number("INV", clock)

\* C5: two creations without a number handled within the same clock second
\* are both stored, each with its own generated number: no creation is
\* refused because of the number generated for it.
C5_SameSecondBothStored ==
    response.op \in {"invoice_create", "payment_create", "service_request_create"}
        => response.status # 500

\* the payloads the payment scenario sends
PaymentInvoicePayloads ==
    {d \in InvoicePayloads :
        /\ DOMAIN d = {"customer", "due_date", "total_amount"}
        /\ d["customer"] = 1 /\ d["due_date"] = 0 /\ d["total_amount"] = MaxTotal}

PaymentInvoicePatches ==
    {d \in InvoicePayloads : DOMAIN d = {"total_amount"}}

PaymentScenarioPayloads ==
    {d \in PaymentPayloads : "status" \in DOMAIN d => d["status"] \in {2, 3}}

PaymentScenarioBodies ==
    {d \in PaymentScenarioPayloads : DOMAIN d = PaymentKeys}

\* Payment resource, with invoices to pay
NextPayment ==
    \/ Tick
    \/ \E data \in PaymentInvoicePayloads : InvoiceCreate(data)
    \/ \E i \in invoices, data \in PaymentInvoicePatches : InvoicePartialUpdate(i, data)
    \/ \E i \in invoices : InvoiceDestroy(i)
    \/ \E data \in PaymentScenarioPayloads : PaymentCreate(data)
    \/ \E p \in payments, data \in PaymentScenarioBodies : PaymentUpdate(p, data)
    \/ \E p \in payments, data \in PaymentScenarioPayloads : PaymentPartialUpdate(p, data)
    \/ \E p \in payments : PaymentDestroy(p)

SpecPayment == Init /\ [][NextPayment]_vars

\* C6: an invoice's remaining_amount is its total_amount minus the sum of the
\* amounts of all payments that reference it, whatever their status (0 when it
\* has none); it follows every payment create, update and delete and is not a
\* stored field of the invoice.
RECURSIVE PaidUpTo(_, _)
PaidUpTo(invoice, n) ==
    IF n = 0 THEN 0
    ELSE PaidUpTo(invoice, n - 1) +
         (IF \E p \in payments : p.id = n /\ p.invoice = invoice
          THEN (CHOOSE p \in payments : p.id = n).amount
          ELSE 0)

C6_RemainingAmount ==
    \A i \in invoices :
        /\ remaining_amount(i) = i.total_amount - PaidUpTo(i.id, nextPaymentId - 1)
        /\ "remaining_amount" \notin DOMAIN i

\* an invoice with a completed and a failed payment, both subtracted
C6_Witness ==
    \E i \in invoices, a \in payments, b \in payments :
        /\ a.invoice = i.id /\ b.invoice = i.id
        /\ a.status = "completed" /\ b.status = "failed"
        /\ remaining_amount(i) = i.total_amount - a.amount - b.amount

\* C9: creating, updating or deleting a payment leaves every stored field of
\* every invoice unchanged; an invoice whose payments reach its total keeps
\* its status.
C9_PaymentLeavesInvoice ==
    [][(clock' = clock /\ response'.op \in {"payment_create", "payment_update",
                                            "payment_partial_update", "payment_destroy"})
          => invoices' = invoices]_vars

\* a payment was stored that settles its invoice, which is still a draft
C9_Witness ==
    /\ response.op = "payment_create" /\ response.status = 201
    /\ \E i \in invoices, p \in payments :
           /\ p.id = response.pk /\ p.invoice = i.id
           /\ i.total_amount > 0
           /\ PaidUpTo(i.id, nextPaymentId - 1) >= i.total_amount
           /\ i.status = "draft"

\* the payloads the overdue scenario sends
OverdueInvoicePayloads ==
    {d \in InvoicePayloads :
        /\ {"customer", "due_date", "total_amount"} \subseteq DOMAIN d
        /\ d["customer"] = 1 /\ d["total_amount"] = 1}

OverdueInvoicePatches ==
    {d \in InvoicePayloads : DOMAIN d \subseteq {"status", "due_date"}}

\* Invoice resource while the days pass
NextOverdue ==
    \/ Tick
    \/ \E data \in OverdueInvoicePayloads : InvoiceCreate(data)
    \/ \E i \in invoices, data \in OverdueInvoicePatches : InvoicePartialUpdate(i, data)

SpecOverdue == Init /\ [][NextOverdue]_vars

\* C7: is_overdue is true exactly when the status is neither 'paid' nor
\* 'cancelled' and the current date is strictly later than due_date; an
\* invoice due today is not overdue and a stored status 'overdue' plays no
\* part.
C7_IsOverdue ==
    \A i \in invoices :
        /\ is_overdue(i) <=>
               (i.status # "paid" /\ i.status # "cancelled" /\ clock.day > i.due_date)
        /\ i.due_date = clock.day => ~is_overdue(i)
        /\ i.status = "overdue" =>
               (is_overdue(i) <=> is_overdue([i EXCEPT !.status = "sent"]))

\* an invoice stored as 'overdue' that is due today, next to a sent one past due
C7_Witness ==
    \E i \in invoices, j \in invoices :
        /\ i.status = "overdue" /\ i.due_date = clock.day /\ ~is_overdue(i)
        /\ j.status = "sent" /\ j.due_date < clock.day /\ is_overdue(j)

\* the payloads the contact scenario sends
ContactInvoicePayloads ==
    {d \in InvoicePayloads :
        /\ DOMAIN d = {"customer", "due_date", "total_amount"}
        /\ d["due_date"] = 0 /\ d["total_amount"] = 1}

ContactAddressPayloads ==
    {d \in AddressPayloads : DOMAIN d = {"contact", "city"} /\ d["city"] = 1}

\* Contact resource, with the rows that reference contacts
NextContact ==
    \/ Tick
    \/ \E c \in ContactIds : ContactDestroy(c)
    \/ \E data \in ContactInvoicePayloads : InvoiceCreate(data)
    \/ \E i \in invoices : InvoiceDestroy(i)
    \/ \E customer \in ContactIds : ServiceRequestCreate(customer, NULL)
    \/ \E data \in ContactAddressPayloads : AddressCreate(data)

SpecContact == Init /\ [][NextContact]_vars

\* C10: deleting a contact that is the customer of an invoice or of a service
\* request is refused and nothing is deleted: every row stays as it was.
C10_ProtectedContact ==
    [][(/\ clock' = clock
        /\ response'.op = "contact_destroy"
        /\ response'.pk \in contacts
        /\ \/ \E i \in invoices : i.customer = response'.pk
           \/ \E r \in serviceRequests : r.customer = response'.pk)
          => (response'.status = 500 /\ UNCHANGED dbVars)]_vars

\* a refused delete of a contact that has an address and a service request
C10_Witness ==
    /\ response.op = "contact_destroy" /\ response.status = 500
    /\ response.pk \in contacts
    /\ \E a \in addresses : a.contact = response.pk
    /\ \E r \in serviceRequests : r.customer = response.pk
    /\ ~(\E i \in invoices : i.customer = response.pk)

\* the payloads the cascade scenario sends
CascadePaymentPatches ==
    {d \in PaymentPayloads : DOMAIN d = {"invoice"}}

\* Invoices with their items (admin console) and payments (REST)
NextCascade ==
    \/ Tick
    \/ \E data \in NumberingInvoicePayloads : InvoiceCreate(data)
    \/ \E i \in invoices : InvoiceDestroy(i)
    \/ \E data \in NumberingPaymentPayloads : PaymentCreate(data)
    \/ \E p \in payments, data \in CascadePaymentPatches : PaymentPartialUpdate(p, data)
    \/ \E p \in payments : PaymentDestroy(p)
    \/ \E invoice \in InvoiceIds : InvoiceItemAdminAdd(invoice, 100, 1, 0, 0)
    \/ \E it \in invoiceItems, invoice \in InvoiceIds :
          InvoiceItemAdminChange(it, invoice, 100, 1, 0, 0)
    \/ \E it \in invoiceItems : InvoiceItemAdminDelete(it)

SpecCascade == Init /\ [][NextCascade]_vars

\* C11: every invoice item and every payment references an invoice that is
\* stored; deleting an invoice deletes exactly its items and its payments in
\* the same step and touches no item or payment of another invoice.
C11_InvoiceCascade ==
    /\ [](/\ \A it \in invoiceItems : \E i \in invoices : i.id = it.invoice
          /\ \A p \in payments : \E i \in invoices : i.id = p.invoice)
    /\ [][(clock' = clock /\ response'.op = "invoice_destroy")
            => /\ invoiceItems' =
                     {it \in invoiceItems : \E i \in invoices' : i.id = it.invoice}
               /\ payments' =
                     {p \in payments : \E i \in invoices' : i.id = p.invoice}]_vars

\* invoice 1 was deleted and took item 1 and payment 1 with it, while
\* invoice 2 keeps item 2 and payment 2
C11_Witness ==
    /\ response = Resp("invoice_destroy", 204, 1)
    /\ nextInvoiceItemId = 3 /\ nextPaymentId = 3
    /\ \E i \in invoices : i.id = 2
    /\ {it.id : it \in invoiceItems} = {2}
    /\ {p.id : p \in payments} = {2}
    /\ \A it \in invoiceItems : it.invoice = 2
    /\ \A pm \in payments : pm.invoice = 2

\* the requests as the views receive them: permission check, then handler
RegisterRequest(username, email, password, password_confirm) ==
    Dispatch(RegisterView_permission_classes, "register",
             Register(username, email, password, password_confirm))

LoginRequest(email, password, cookie) ==
    Dispatch(LoginView_permission_classes, "login", Login(email, password, cookie))

AddressCreateRequest(data) ==
    Dispatch(AddressViewSet_permission_classes, "address_create", AddressCreate(data))

InvoiceCreateRequest(data) ==
    Dispatch(InvoiceViewSet_permission_classes, "invoice_create", InvoiceCreate(data))

InvoicePartialUpdateRequest(i, data) ==
    Dispatch(InvoiceViewSet_permission_classes, "invoice_partial_update",
             InvoicePartialUpdate(i, data))

InvoiceDestroyRequest(i) ==
    Dispatch(InvoiceViewSet_permission_classes, "invoice_destroy", InvoiceDestroy(i))

InventoryCreateRequest(data) ==
    Dispatch(InventoryViewSet_permission_classes, "inventory_create",
             InventoryCreate(data))

ServiceRequestCreateRequest(customer, technician) ==
    Dispatch(ServiceRequestViewSet_permission_classes, "service_request_create",
             ServiceRequestCreate(customer, technician))

\* the payloads the permission scenario sends
AuthPassword == Repeat("a", min_length)
AuthEmail == [name |-> 1, padded |-> FALSE]

AuthInvoicePatches == {d \in InvoicePayloads : DOMAIN d = {"status"} /\ d["status"] = 2}

AuthItemPayloads ==
    {d \in ItemPayloads :
        DOMAIN d = ItemKeys /\ d["product"] = 1 /\ d["quantity"] = 1
                            /\ d["transaction_type"] = 1}

AuthAddressPayloads == {d \in ContactAddressPayloads : d["contact"] = 1}

\* Clients with and without a valid token send requests to the resources
NextAuth ==
    \/ RegisterRequest(1, AuthEmail, AuthPassword, AuthPassword)
    \/ \E password \in {AuthPassword, Repeat("b", min_length)} :
          LoginRequest(AuthEmail, password, NULL)
    \/ \E u \in 1..MaxUsers : PresentToken(u)
    \/ DropToken
    \/ \E data \in AuthAddressPayloads : AddressCreateRequest(data)
    \/ \E data \in NumberingInvoicePayloads : InvoiceCreateRequest(data)
    \/ \E i \in invoices, data \in AuthInvoicePatches : InvoicePartialUpdateRequest(i, data)
    \/ \E i \in invoices : InvoiceDestroyRequest(i)
    \/ \E data \in AuthItemPayloads : InventoryCreateRequest(data)
    \/ ServiceRequestCreateRequest(1, NULL)

SpecAuth == Init /\ [][NextAuth]_vars

\* C12: a request without valid authentication never creates, changes or
\* deletes a stored row through a CRUD resource; the only state changes open
\* to an unauthenticated caller are registering a user and logging in.
C12_UnauthenticatedChangesNothing ==
    [][(requestUser = NULL /\ response'.op \notin {"register", "login"})
          => UNCHANGED dbVars]_vars

\* an unauthenticated delete of a stored invoice was refused
C12_Witness ==
    /\ requestUser = NULL
    /\ response = Resp("invoice_destroy", 401, NULL)
    /\ invoices # {}
    /\ users # {}

\* the payloads the login scenario sends
LoginPasswords == {Repeat("a", min_length), Repeat("a", min_length - 1) \o <<"b">>}

\* Registered users log in, with and without a session cookie
NextLogin ==
    \/ \E u \in Usernames, password \in LoginPasswords :
          Register(u, [name |-> u, padded |-> FALSE], password, password)
    \/ \E email \in Emails, password \in LoginPasswords, cookie \in CookieKeys \cup {NULL} :
          Login(email, password, cookie)

SpecLogin == Init /\ [][NextLogin]_vars

\* C13: a login request with valid credentials (the e-mail address and the
\* password of a stored user) is answered 200 with the tokens and the user's
\* data and adds exactly one UserSession row, of that user; a login request
\* with other credentials adds no UserSession and changes no stored row.
C13_LoginRecordsSession ==
    [][\A email \in Emails, password \in LoginPasswords, cookie \in CookieKeys \cup {NULL} :
          Login(email, password, cookie) =>
              IF \E u \in users : /\ u.email = email.name /\ ~email.padded
                                  /\ u.password = password
              THEN /\ response'.status = 200
                   /\ userSessions \subseteq userSessions'
                   /\ Cardinality(userSessions' \ userSessions) = 1
                   /\ \A us \in userSessions' \ userSessions :
                          \E u \in users : u.id = us.user /\ u.email = email.name
              ELSE /\ response'.status # 200
                   /\ UNCHANGED dbVars]_vars

\* Registration with every combination of the modelled field values
NextRegister ==
    \E username \in Usernames, email \in Emails,
       password \in Passwords, password_confirm \in Passwords :
        Register(username, email, password, password_confirm)

SpecRegister == Init /\ [][NextRegister]_vars

\* C14: a registration request whose password and password_confirm differ,
\* or whose password has fewer than 8 characters, is answered with a
\* validation error (400) and the set of stored users is unchanged.
C14_RegisterRejected ==
    [][\A username \in Usernames, email \in Emails,
          password \in Passwords, password_confirm \in Passwords :
          (/\ Register(username, email, password, password_confirm)
           /\ (password # password_confirm \/ Len(password) < 8))
              => (response'.status = 400 /\ users' = users)]_vars

\* Admin console of the role tables, with users to give roles to
NextRoles ==
    \/ \E u \in 1..MaxUsers :
          Register(u, [name |-> u, padded |-> FALSE], AuthPassword, AuthPassword)
    \/ \E role \in RoleIds, permission \in PermissionIds, granted \in BOOLEAN :
          RolePermissionAdminAdd(role, permission, granted)
    \/ \E old \in rolePermissions, role \in RoleIds, permission \in PermissionIds,
          granted \in BOOLEAN : RolePermissionAdminChange(old, role, permission, granted)
    \/ \E rp \in rolePermissions : RolePermissionAdminDelete(rp)
    \/ \E user \in 1..MaxUsers, role \in RoleIds, is_active \in BOOLEAN :
          UserRoleAdminAdd(user, role, is_active)
    \/ \E old \in userRoles, user \in 1..MaxUsers, role \in RoleIds, is_active \in BOOLEAN :
          UserRoleAdminChange(old, user, role, is_active)
    \/ \E ur \in userRoles : UserRoleAdminDelete(ur)

SpecRoles == Init /\ [][NextRoles]_vars

\* C15: there is at most one RolePermission row per (role, permission) pair
\* and at most one UserRole row per (user, role) pair; adding a pair that is
\* already stored is rejected and leaves the stored rows, with their granted
\* and is_active flags, unchanged.
C15_UniquePairs ==
    /\ [](/\ \A a \in rolePermissions, b \in rolePermissions :
                (a.role = b.role /\ a.permission = b.permission) => a = b
          /\ \A a \in userRoles, b \in userRoles :
                (a.user = b.user /\ a.role = b.role) => a = b)
    /\ [][/\ \A role \in RoleIds, permission \in PermissionIds, granted \in BOOLEAN :
                (/\ RolePermissionAdminAdd(role, permission, granted)
                 /\ \E o \in rolePermissions : o.role = role /\ o.permission = permission)
                    => (response'.status # 302 /\ rolePermissions' = rolePermissions)
          /\ \A user \in 1..MaxUsers, role \in RoleIds, is_active \in BOOLEAN :
                (/\ UserRoleAdminAdd(user, role, is_active)
                 /\ \E o \in userRoles : o.user = user /\ o.role = role)
                    => (response'.status # 302 /\ userRoles' = userRoles)]_vars

\* an add was refused while the pair is stored with granted = FALSE, and a
\* user holds a role that is not active
C15_Witness ==
    /\ response = Resp("role_permission_admin_add", 200, NULL)
    /\ nextRolePermissionId <= MaxRolePermissions
    /\ \E rp \in rolePermissions : ~rp.granted
    /\ \E ur \in userRoles : ~ur.is_active

\* Product resource: the prices of the products are set again and again
NextProduct ==
    \/ \E p \in ProductIds, data \in ProductPayloads : ProductUpdate(p, data)
    \/ \E p \in ProductIds, data \in ProductPayloads : ProductPartialUpdate(p, data)

SpecProduct == Init /\ [][NextProduct]_vars

\* C16: profit_margin is (selling_price - cost_price) / cost_price * 100 when
\* cost_price is greater than 0 and 0 when cost_price is 0; reading it fails
\* for no stored product.
C16_ProfitMargin ==
    \A p \in products :
        LET cost_price == productPrices[p].cost_price
            selling_price == productPrices[p].selling_price
            margin == profit_margin(p)
        IN /\ ~margin.error
           /\ margin.den # 0
           /\ cost_price >= 0
           /\ cost_price > 0 =>
                  margin.num * cost_price = (selling_price - cost_price) * 100 * margin.den
           /\ cost_price = 0 => margin.num = 0

\* a product sold below its cost next to one whose cost price is zero
C16_Witness ==
    \E p \in products, q \in products :
        /\ productPrices[p].cost_price > productPrices[p].selling_price
        /\ productPrices[p].selling_price = 0
        /\ profit_margin(p).num < 0
        /\ productPrices[q].cost_price = 0 /\ productPrices[q].selling_price > 0
        /\ profit_margin(q) = DecimalOf(0)

\* The items of one invoice, written through the admin console
NextLineTotal ==
    \/ \E data \in NumberingInvoicePayloads : invoices = {} /\ InvoiceCreate(data)
    \/ \E invoice \in InvoiceIds, quantity \in ItemQuantities,
          unit_price \in UnitPrices, discount_percentage \in DiscountPercentages,
          line_total \in LineTotals :
          InvoiceItemAdminAdd(invoice, quantity, unit_price, discount_percentage,
                              line_total)
    \/ \E it \in invoiceItems, quantity \in ItemQuantities,
          unit_price \in UnitPrices, discount_percentage \in DiscountPercentages,
          line_total \in LineTotals :
          InvoiceItemAdminChange(it, it.invoice, quantity, unit_price,
                                 discount_percentage, line_total)
    \/ \E it \in invoiceItems : InvoiceItemAdminDelete(it)

SpecLineTotal == Init /\ [][NextLineTotal]_vars

\* C17 as stated: every stored invoice item has line_total equal to
\* unit_price * quantity - (unit_price * quantity * discount_percentage) / 100
\* and 0 <= line_total <= unit_price * quantity.
C17_LineTotalExact ==
    \A it \in invoiceItems :
        /\ it.line_total * 1000000 =
               LineTotalExact(it.unit_price, it.quantity, it.discount_percentage)
        /\ 0 <= it.line_total
        /\ it.line_total * 100 <= Gross(it.unit_price, it.quantity)

\* C17 amended: every stored invoice item has line_total within half a
\* hundredth of unit_price * quantity - (unit_price * quantity *
\* discount_percentage) / 100, whatever line_total the caller supplied, and
\* 0 <= line_total < unit_price * quantity + 0.01.
C17_LineTotalRounded ==
    \A it \in invoiceItems :
        LET exact == LineTotalExact(it.unit_price, it.quantity,
                                    it.discount_percentage)
            stored == it.line_total * 1000000
        IN /\ stored - exact <= 500000
           /\ exact - stored <= 500000
           /\ 0 <= it.line_total
           /\ it.line_total * 100 < Gross(it.unit_price, it.quantity) + 100

\* an item was saved whose computed total has more than two decimal places
\* and whose stored total is none of the values the form can submit
C17_Witness ==
    /\ response.op \in {"invoice_item_admin_add", "invoice_item_admin_change"}
    /\ response.status = 302
    /\ \E it \in invoiceItems :
          /\ it.id = response.pk
          /\ LineTotalExact(it.unit_price, it.quantity,
                            it.discount_percentage) % 1000000 # 0
          /\ it.line_total \notin LineTotals

\* invoice numbers a client can put into a request body
SuppliedNumbers ==
    {EmptyNumber, [prefix |-> "X", day |-> 0, sec |-> 0]} \cup
    {[prefix |-> "INV", day |-> d, sec |-> 0] : d \in Days}

\* bodies that carry an invoice_number next to the other fields
RenumberingInvoicePayloads ==
    {d @@ ("invoice_number" :> n) :
        d \in {x \in InvoicePayloads :
                  /\ DOMAIN x = {"customer", "due_date", "total_amount", "status"}
                  /\ x["customer"] = 1 /\ x["due_date"] = 0
                  /\ x["total_amount"] = 1 /\ x["status"] \in {1, 2}},
        n \in SuppliedNumbers}

\* bodies that carry nothing but an invoice_number
RenumberingInvoicePatches ==
    {("invoice_number" :> n) : n \in SuppliedNumbers}

\* Invoices are created and saved again, every request naming a number
NextRenumbering ==
    \/ Tick
    \/ \E data \in RenumberingInvoicePayloads : InvoiceCreate(data)
    \/ \E i \in invoices, data \in RenumberingInvoicePayloads : InvoiceUpdate(i, data)
    \/ \E i \in invoices, data \in RenumberingInvoicePatches :
          InvoicePartialUpdate(i, data)
    \/ \E i \in invoices, data \in RenumberingInvoicePayloads :
          InvoiceAdminChange(i, data)
    \/ \E i \in invoices : InvoiceDestroy(i)

SpecRenumbering == Init /\ [][NextRenumbering]_vars

\* C18: every stored invoice has a non-empty invoice_number, and no step
\* changes the invoice_number of an invoice that stays stored, whatever
\* number the request supplied.
C18_InvoiceNumberImmutable ==
    /\ [](\A i \in invoices : i.invoice_number # EmptyNumber)
    /\ [][\A i \in invoices : \A n \in invoices' :
              n.id = i.id => n.invoice_number = i.invoice_number]_vars

\* an invoice numbered on day 0 was saved again on day 1 by a PUT that
\* supplied another number and changed its status, and kept its number
C18_Witness ==
    /\ response = Resp("invoice_update", 200, 1)
    /\ clock.day = 1
    /\ \E i \in invoices :
          /\ i.id = 1
          /\ i.status = "sent"
          /\ i.invoice_number = [prefix |-> "INV", day |-> 0, sec |-> 0]

\* The chart of accounts with the transactions and expenses booked on it;
\* a new account takes the next free code or asks for code 1 again
NextLedger ==
    \/ \E code \in {1, nextAccountId}, parent \in AccountIds \cup {NULL} :
          AccountCreate(code, parent)
    \/ \E a \in accounts, parent \in AccountIds \cup {NULL} :
          AccountPartialUpdate(a, parent)
    \/ \E a \in accounts : AccountDestroy(a)
    \/ \E debit_account \in AccountIds, credit_account \in AccountIds :
          TransactionCreate(debit_account, credit_account)
    \/ \E t \in transactions : TransactionDestroy(t)
    \/ \E account \in AccountIds : ExpenseAdminAdd(account)
    \/ \E x \in expenses : ExpenseAdminDelete(x)

SpecLedger == Init /\ [][NextLedger]_vars

\* account c is account a or lies below it: following parent from c reaches
\* a in at most n steps
RECURSIVE C19_Under(_, _, _)
C19_Under(c, a, n) ==
    \/ c.id = a
    \/ /\ n > 0
       /\ \E p \in accounts : p.id = c.parent /\ C19_Under(p, a, n - 1)

\* C19: a request to delete an account deletes nothing when the account or
\* an account below it is the debit or credit account of a transaction or the
\* account of an expense, and otherwise deletes exactly the account and the
\* accounts below it; transactions and expenses stay as they are.
C19_AccountDeleteProtected ==
    [][response'.op = "account_destroy" =>
          LET tree == {c \in accounts : C19_Under(c, response'.pk, MaxAccounts)}
              ids == {c.id : c \in tree}
              used == \/ \E t \in transactions :
                            t.debit_account \in ids \/ t.credit_account \in ids
                      \/ \E x \in expenses : x.account \in ids
          IN /\ transactions' = transactions /\ expenses' = expenses
             /\ IF used
                THEN accounts' = accounts /\ response'.status = 500
                ELSE accounts' = accounts \ tree /\ response'.status = 204]_vars

\* deleting account 1 was refused because of an expense on account 3, two
\* levels below it, and all three accounts are still stored
C19_Witness ==
    /\ response = Resp("account_destroy", 500, 1)
    /\ transactions = {}
    /\ \E x \in expenses : x.account = 3
    /\ \E a \in accounts : a.id = 1 /\ a.parent = NULL
    /\ \E a \in accounts : a.id = 2 /\ a.parent = 1
    /\ \E a \in accounts : a.id = 3 /\ a.parent = 2

\* the payloads the technician scenario sends
TechnicianSchedulePayloads ==
    {d \in SchedulePayloads :
        DOMAIN d = ScheduleKeys /\ d["start_time"] = 1 /\ d["end_time"] = 2}

TechnicianRequestPatches ==
    {d \in ServiceRequestPayloads :
        \/ DOMAIN d = {"status"} /\ d["status"] \in {2, 4}
        \/ DOMAIN d = {"assigned_technician", "assigned_at"} /\ d["assigned_at"] = 1}

\* Service requests are assigned and scheduled, technicians are deleted
NextTechnician ==
    \/ Tick
    \/ \E technician \in TechnicianIds \cup {NULL} : ServiceRequestCreate(1, technician)
    \/ \E r \in serviceRequests, data \in TechnicianRequestPatches :
          ServiceRequestPartialUpdate(r, data)
    \/ \E data \in TechnicianSchedulePayloads : ScheduleCreate(data)
    \/ \E t \in TechnicianIds : TechnicianDestroy(t)

SpecTechnician == Init /\ [][NextTechnician]_vars

\* C20: deleting a technician deletes exactly the schedules of that
\* technician, keeps every service request stored, sets assigned_technician
\* to null on the requests that were assigned to it and leaves status,
\* assigned_at and every other field of every request unchanged.
C20_TechnicianDelete ==
    [][(clock' = clock /\ response'.op = "technician_destroy"
            /\ response'.pk \in technicians)
        => LET t == response'.pk
           IN /\ schedules' = {s \in schedules : s.technician # t}
              /\ {n.id : n \in serviceRequests'} = {r.id : r \in serviceRequests}
              /\ \A r \in serviceRequests : \A n \in serviceRequests' :
                    n.id = r.id =>
                        /\ n.status = r.status
                        /\ n.assigned_at = r.assigned_at
                        /\ n.request_number = r.request_number
                        /\ n.customer = r.customer
                        /\ n.assigned_technician =
                               IF r.assigned_technician = t
                               THEN NULL ELSE r.assigned_technician]_vars

\* technician 1 was deleted: request 1, assigned to it on day 1 and in
\* status assigned, is stored without a technician; request 2 keeps
\* technician 2; of the two schedules only that of technician 2 is left
C20_Witness ==
    /\ response = Resp("technician_destroy", 204, 1)
    /\ \E r \in serviceRequests :
          /\ r.id = 1 /\ r.status = "assigned"
          /\ r.assigned_at = DateTime(1) /\ r.assigned_technician = NULL
    /\ \E r \in serviceRequests : r.id = 2 /\ r.assigned_technician = 2
    /\ nextScheduleId = 3
    /\ {s.technician : s \in schedules} = {2}

\* the requests to me/ as the view receives them
UserProfileGetRequest ==
    Dispatch(UserProfileView_permission_classes, "user_profile_get", UserProfileGet)

UserProfilePutRequest(data) ==
    Dispatch(UserProfileView_permission_classes, "user_profile_put",
             UserProfilePut(data))

UserProfilePatchRequest(data) ==
    Dispatch(UserProfileView_permission_classes, "user_profile_patch",
             UserProfilePatch(data))

\* Users register under their own name and then read and update me/
NextProfile ==
    \/ \E name \in EmailNames :
          RegisterRequest(name, [name |-> name, padded |-> FALSE],
                          AuthPassword, AuthPassword)
    \/ \E user \in 1..MaxUsers : PresentToken(user)
    \/ DropToken
    \/ UserProfileGetRequest
    \/ \E data \in UserProfilePayloads : UserProfilePutRequest(data)
    \/ \E data \in UserProfilePayloads : UserProfilePatchRequest(data)

SpecProfile == Init /\ [][NextProfile]_vars

\* C21: a GET, PUT or PATCH on me/ changes no row of another user, adds and
\* removes no user, and leaves the id and the username of the requester as
\* they were; a GET changes nothing at all.
C21_OwnRecordOnly ==
    [][response'.op \in {"user_profile_get", "user_profile_put", "user_profile_patch"}
        => /\ \A u \in users : u.id # requestUser => u \in users'
           /\ {n.id : n \in users'} = {u.id : u \in users}
           /\ \A u \in users : \A n \in users' :
                 n.id = u.id => n.username = u.username
           /\ userSessions' = userSessions
           /\ response'.op = "user_profile_get" => users' = users]_vars

\* user 1, registered as name 1, has moved to e-mail address 3 by a PUT on
\* me/ while user 2 is stored as registered
C21_Witness ==
    /\ response = Resp("user_profile_put", 200, 1)
    /\ requestUser = 1
    /\ \E u \in users : u.id = 1 /\ u.username = 1 /\ u.email = 3
    /\ \E u \in users : u.id = 2 /\ u.username = 2 /\ u.email = 2

\* Users register, entries are written for them, and the audit log is
\* approached through its REST resource and through the admin console
NextAudit ==
    \/ \E name \in 1..MaxUsers :
          RegisterRequest(name, [name |-> name, padded |-> FALSE],
                          AuthPassword, AuthPassword)
    \/ \E user \in 1..MaxUsers : PresentToken(user)
    \/ \E user \in (1..MaxUsers) \cup {NULL}, created_by \in (1..MaxUsers) \cup {NULL} :
          AuditLogSave(user, created_by, 5)
    \/ \E action \in ViewSetActions, pk \in 1..MaxAuditLogs :
          Dispatch(AuditLogViewSet_permission_classes, "audit_log_" \o action,
                   AuditLogViewSetView(action, pk, NULL, 3))
    \/ \E view \in {"add", "change", "delete"}, pk \in 1..MaxAuditLogs :
          AuditLogAdminView(view, pk, NULL, 3)
    \/ \E u \in users : UserAdminDelete(u)

SpecAudit == Init /\ [][NextAudit]_vars

\* the operations of the two interfaces
C22_InterfaceOps ==
    {"audit_log_" \o action : action \in ViewSetActions} \cup
    {"audit_log_admin_" \o view : view \in {"add", "change", "delete"}} \cup
    {"user_admin_delete"}

\* C22 as stated: every operation of the admin console and of the audit-log
\* REST resource leaves the set of audit-log entries and all their fields
\* unchanged.
C22_AuditLogUnchanged ==
    [][response'.op \in C22_InterfaceOps => auditLogs' = auditLogs]_vars

\* C22 amended: no operation of the admin console or of the audit-log REST
\* resource adds or deletes an entry or changes its action; the user keys of
\* an entry change only when the admin console deletes the user they name,
\* and then to null.
C22_AuditLogKept ==
    [][response'.op \in C22_InterfaceOps =>
          /\ {n.id : n \in auditLogs'} = {l.id : l \in auditLogs}
          /\ \A l \in auditLogs : \A n \in auditLogs' :
                n.id = l.id =>
                    /\ n.action = l.action
                    /\ \/ n.user = l.user
                       \/ /\ response'.op = "user_admin_delete"
                          /\ l.user = response'.pk /\ n.user = NULL
                    /\ \/ n.created_by = l.created_by
                       \/ /\ response'.op = "user_admin_delete"
                          /\ l.created_by = response'.pk /\ n.created_by = NULL]_vars

\* user 1 was deleted in the admin console: entry 1, written for user 1, is
\* stored without a user, entry 2 still names user 2
C22_Witness ==
    /\ response = Resp("user_admin_delete", 302, 1)
    /\ \E l \in auditLogs : l.id = 1 /\ l.user = NULL /\ l.created_by = 2
    /\ \E l \in auditLogs : l.id = 2 /\ l.user = 2
    /\ \E u \in users : u.id = 2
    /\ ~(\E u \in users : u.id = 1)

\* the bodies the e-mail scenario sends to me/
EmailPatches == {d \in UserProfilePayloads : DOMAIN d = {"email"}}

\* Users register, move to other e-mail addresses and log in
NextEmail ==
    \/ \E u \in Usernames, email \in Emails :
          RegisterRequest(u, email, AuthPassword, AuthPassword)
    \/ \E user \in 1..MaxUsers : PresentToken(user)
    \/ \E data \in EmailPatches : UserProfilePatchRequest(data)
    \/ \E email \in Emails, password \in LoginPasswords : Login(email, password, NULL)

SpecEmail == Init /\ [][NextEmail]_vars

\* C23: no two stored users have the same e-mail address; the lookup of the
\* user by the submitted address that follows an accepted login finds exactly
\* one user; a registration or update that is refused leaves the users as
\* they were.
C23_UniqueEmailLookup ==
    /\ [](\A a \in users : \A b \in users : a.id # b.id => a.email # b.email)
    /\ [][\A email \in Emails, password \in LoginPasswords :
              (/\ Login(email, password, NULL)
               /\ authenticate(EmailStrip(email), password) # {})
                  => Cardinality(LoginLookup(email)) = 1]_vars
    /\ [][(/\ response'.op \in {"register", "user_profile_patch"}
           /\ response'.status \notin {200, 201}) => users' = users]_vars

\* the bodies the statistics scenario sends
StatisticsContactPatches ==
    {d \in ContactPayloads :
        \/ DOMAIN d = {"is_active"}
        \/ DOMAIN d = {"contact_type"} /\ d["contact_type"] \in {1, 2}}

\* Contacts are updated and deleted while a statistics request runs its
\* queries
NextStatistics ==
    \/ \E c \in contacts, data \in StatisticsContactPatches :
          ContactPartialUpdate(c, data)
    \/ \E c \in contacts : ContactDestroy(c)
    \/ ContactStatisticsTotal
    \/ ContactStatisticsActive
    \/ ContactStatisticsInactive
    \/ ContactStatisticsByType

SpecStatistics == Init /\ [][NextStatistics]_vars

RECURSIVE C24_Sum(_)
C24_Sum(counts) ==
    IF counts = <<>> THEN 0 ELSE Head(counts) + C24_Sum(Tail(counts))

\* C24: every contact statistics response has total_contacts =
\* active_contacts + inactive_contacts and total_contacts = the sum of the
\* by_type counts, also when contacts are updated or deleted while the
\* request runs.
C24_StatisticsConsistent ==
    (statistics.pc = 0 /\ statistics.by_type # <<>>) =>
        /\ statistics.total_contacts =
               statistics.active_contacts + statistics.inactive_contacts
        /\ statistics.total_contacts = C24_Sum(statistics.by_type)

\* One invoice and the payments made and changed for it
NextOverpay ==
    \/ Tick
    \/ \E data \in PaymentInvoicePayloads : invoices = {} /\ InvoiceCreate(data)
    \/ \E data \in PaymentScenarioPayloads : PaymentCreate(data)
    \/ \E p \in payments, data \in PaymentScenarioBodies : PaymentUpdate(p, data)
    \/ \E p \in payments, data \in PaymentScenarioPayloads : PaymentPartialUpdate(p, data)

SpecOverpay == Init /\ [][NextOverpay]_vars

\* C25: after any sequence of payment creations and updates for an invoice,
\* its remaining_amount is never negative and never greater than its
\* total_amount: the amounts of its payments never sum to more than
\* total_amount.
C25_RemainingWithinTotal ==
    \A i \in invoices :
        /\ remaining_amount(i) >= 0
        /\ remaining_amount(i) <= i.total_amount
        /\ PaidUpTo(i.id, nextPaymentId - 1) <= i.total_amount

=============================================================================
